---- MODULE Spec2Model ----
(***************************************************************************)
(* A model of the crypto-crash backend: the round engine (GameService),    *)
(* the provably-fair functions (CryptoUtils), the wallet (WalletService)   *)
(* and the document store they share.                                      *)
(*                                                                         *)
(* Numbers.  JavaScript doubles are modelled in fixed point:               *)
(*   - a multiplier m is the integer m * MultScale (four decimals);        *)
(*   - a crash point is kept in hundredths (it is rounded to 2 decimals);  *)
(*   - an asset amount is kept in millionths of a coin;                    *)
(*   - NaN and null are values outside every numeric range.                *)
(* Time.  Date.now() is sampled on a grid of GridMs; timers fire at their  *)
(* deadline, store round trips complete within one grid instant, and only  *)
(* the upstream price request may span several instants.                   *)
(***************************************************************************)
EXTENDS Integers, Sequences, FiniteSets, TLC

\* ------------------------------------------------------------------ bounds
MaxRounds == 2
NumSeeds == 2
MaxCalls == 2
MaxPriceSteps == 1
MaxWalletCalls == 3
MaxClients == 2
MaxInbound == 2
MaxPosts == 1
MaxShutdownClients == 1
MaxVerifyCalls == 1
MaxPayoutCalls == 3
MaxBurst == 20
MaxBursts == 3
RateStride == 20
ReapStride == 15

\* ------------------------------------------------------- program constants
MaxCrashMultiplier == 120
RoundMs == 10000
BettingMs == 3000
TickMs == 100
FallbackBitcoin == 67000
FallbackEthereum == 3500
PingMs == 30000
StaleMs == 120000
ForceExitMs == 10000
CleanupMs == 60000
MaxAgeMs == 300000

\* --------------------------------------------------------------- fixed point
GridMs == 10 * TickMs
MultScale == 100 * 100
CoinScale == 1000 * 1000
HashMax == (256 * 256) - 1
NaN == 0 - 1
Null == 0 - 2

Min(a, b) == IF a < b THEN a ELSE b
Max(a, b) == IF a > b THEN a ELSE b

\* (a * b) \div c without overflowing 32-bit integers, for 0 <= a, b and c > 0
MulDiv(a, b, c) == ((a \div c) * b) + (((a % c) * b) \div c)

\* ------------------------------------------------------------- CryptoUtils
\* A seed is 32 random bytes in hex; the model draws it from NumSeeds strings
\* of two hex digits.
Seeds == 1..NumSeeds
SeedStr(s) == << (s * 11) % 16, (s * 7) % 16 >>

\* roundNumber.toString(): the decimal digits of n
RECURSIVE toString(_)
toString(n) == IF n < 10 THEN << n >> ELSE toString(n \div 10) \o << n % 10 >>

\* parseInt(hash.substring(0, 8), 16): the leading digits of the digest, kept
\* to 16 bits.  SHA-256 itself is an arbitrary fixed mixing function here.
RECURSIVE Mix(_, _)
Mix(str, acc) ==
  IF str = << >> THEN acc
  ELSE Mix(Tail(str), (acc * 41 + Head(str) * 638 + 716) % (HashMax + 1))

HashPrefix(str) == Mix(str, 7)

\* crypto.createHash('sha256').update(str).digest('hex'): the leading digits
\* and the rest of the digest, the rest idealised as collision free
Sha256(str) == << HashPrefix(str), str >>

generateHash(seed, roundNumber) == Sha256(SeedStr(seed) \o toString(roundNumber))

\* generateCrashPoint: random = hashInt / 0xffffffff,
\* crashPoint = max(1, min(maxCrash, 1 / (1 - random * 0.99))), in hundredths.
\* 1 / (1 - 0.99 h / M) = 100 M / (100 M - 99 h)
CrashPointOf(str, roundNumber) ==
  LET hashInt == Sha256(str \o toString(roundNumber))[1]
      num == 100 * HashMax
      den == (100 * HashMax) - (99 * hashInt)
      raw == MulDiv(num, 200, den)
      rounded == (raw + 1) \div 2
  IN  Max(100, Min(MaxCrashMultiplier * 100, rounded))

\* generateCrashPoint for the seed of a round, a seed being named by its index
generateCrashPoint(seed, roundNumber) == CrashPointOf(SeedStr(seed), roundNumber)

\* verifyCrashPoint: |calculated - claimed| < 0.01, both in hundredths
verifyCrashPoint(seed, roundNumber, crashPoint) ==
  LET calculated == generateCrashPoint(seed, roundNumber)
      diff == IF calculated >= crashPoint THEN calculated - crashPoint
              ELSE crashPoint - calculated
  IN  diff < 1

\* ------------------------------------------------------------ Math.log
\* ln(x) * MultScale for x = x100 / 100 >= 1: halve x into [1, 2), then the
\* series ln(y) = 2 (z + z^3/3 + z^5/5 + z^7/7) with z = (y - 1) / (y + 1).
Ln2 == 6931
RECURSIVE LnScaled(_, _)
LnScaled(num, den) ==
  IF num >= 2 * den THEN Ln2 + LnScaled(num, 2 * den)
  ELSE LET z  == ((num - den) * MultScale) \div (num + den)
           z2 == (z * z) \div MultScale
           z3 == (z * z2) \div MultScale
           z5 == (z3 * z2) \div MultScale
           z7 == (z5 * z2) \div MultScale
       IN  2 * (z + (z3 \div 3) + (z5 \div 5) + (z7 \div 7))

Ln(x100) == LnScaled(x100, 100)

\* updateMultiplier's formula: 1 + elapsed * (crashPoint - 1) / (2 ln crashPoint),
\* scaled by MultScale; 0 / 0 = NaN when crashPoint = 1.00
MultiplierAt(elapsedMs, crashPoint) ==
  IF Ln(crashPoint) = 0 THEN NaN
  ELSE MultScale + MulDiv(elapsedMs * (crashPoint - 100), 500, Ln(crashPoint))

\* JavaScript comparisons: any comparison with NaN is false
JsGe(a, b) == a # NaN /\ b # NaN /\ a >= b
JsGt(a, b) == a # NaN /\ b # NaN /\ a > b
JsLt(a, b) == a # NaN /\ b # NaN /\ a < b

\* Math.round(m * 100) / 100 of a multiplier, in hundredths
RoundMultiplier(m) == IF m = NaN THEN NaN ELSE (m + 50) \div 100

\* ------------------------------------------------------------ the state
Players == {"alice", "bob"}
Assets == {"bitcoin", "ethereum"}
RoundSteps == RoundMs \div GridMs
BettingSteps == BettingMs \div GridMs
Horizon == MaxRounds * RoundSteps
ClientIds == 1..MaxClients
PingSteps == PingMs \div GridMs
StaleSteps == StaleMs \div GridMs
ForceExitSteps == ForceExitMs \div GridMs
CleanupSteps == CleanupMs \div GridMs

\* the keys of the rate limiter: req.ip of two clients
Ips == {"ip1", "ip2"}

VARIABLES
  now,                \* Date.now(), in grid steps
  currentRound,       \* GameService.currentRound: 0 (null) or an index of rounds
  roundCounter,       \* GameService.roundCounter
  isGameActive,       \* GameService.isGameActive
  currentMultiplier,  \* GameService.currentMultiplier
  gameStartTime,      \* GameService.gameStartTime
  gameInterval,       \* the setInterval of startGameLoop: Null or its next deadline
  multiplierInterval, \* the setInterval of startMultiplier: live or cleared
  lastTick,           \* the instant of the last updateMultiplier callback
  startTimers,        \* pending setTimeout(startMultiplier) deadlines
  rounds,             \* the GameRound documents, by round number
  startTask,          \* the suspended startNewRound
  crashTasks,         \* the suspended crashGame calls
  calls,              \* the requests: placeBet, cashOut, wallet operations
  players,            \* the Player collection: ids that exist
  wallet,             \* Player.wallet, by player and asset
  stats,              \* Player.totalBets / totalWins / totalLosses
  txLog,              \* the Transaction collection, in insertion order
  events,             \* what WebSocketService.broadcast was given, in order
  clients,            \* WebSocketService.clients, the Map in insertion order
  sockets,            \* the ws objects, by client id
  pingInterval,       \* the setInterval of setupWebSocketServer: next deadline
  server,             \* the process: running, closing, stopped, exit0 or exit1
  rateLimiter         \* the RateLimiter instance: its Map and cleanup interval

engineVars == << currentRound, roundCounter, isGameActive, currentMultiplier,
                 gameStartTime, multiplierInterval, rounds >>
timerVars == << now, gameInterval, lastTick, startTimers >>
taskVars == << startTask, crashTasks >>
storeVars == << players, wallet, stats, txLog >>
hubVars == << clients, sockets, pingInterval, server, rateLimiter >>
vars == << engineVars, timerVars, taskVars, calls, storeVars, events, hubVars >>

\* A broadcast message; the fields a message type does not carry are Null
Event(type, roundId) ==
  [type |-> type, roundId |-> roundId, hash |-> Null, seed |-> Null,
   crashPoint |-> Null, multiplier |-> Null, playerId |-> Null,
   cryptoAmount |-> Null, cryptocurrency |-> Null]

IdleStart == [pc |-> "idle", roundId |-> 0, hash |-> Null]

\* new GameRound({roundId, seed, hash, crashPoint, startTime, status: 'waiting'})
GameRound(roundId, seed, hash, crashPoint) ==
  [roundId |-> roundId, seed |-> seed, hash |-> hash, crashPoint |-> crashPoint,
   status |-> "waiting", bets |-> << >>, maxMultiplier |-> MultScale,
   endTime |-> Null]

\* the constructor of GameService, over a store seeded with funded players
InitEngine ==
  /\ now = 0
  /\ currentRound = 0
  /\ roundCounter = 0
  /\ isGameActive = FALSE
  /\ currentMultiplier = MultScale
  /\ gameStartTime = Null
  /\ gameInterval = Null
  /\ multiplierInterval = FALSE
  /\ lastTick = 0
  /\ startTimers = << >>
  /\ rounds = << >>
  /\ startTask = IdleStart
  /\ crashTasks = << >>
  /\ calls = << >>
  /\ txLog = << >>
  /\ events = << >>

\* a ws object: what the observer has been sent, how many messages it has
\* sent itself, the code it was closed with, the cashOut calls whose result
\* a handleCashoutRequest awaits for it, and the ping frames it was sent and
\* has not answered
Socket(readyState) ==
  [readyState |-> readyState, sent |-> << >>, inbound |-> 0, code |-> Null,
   awaits |-> {}, pings |-> 0]

\* new WebSocketService(wss): no client, the ping timer armed; the process
\* runs
InitHub ==
  /\ clients = << >>
  /\ sockets = [k \in ClientIds |-> Socket("NONE")]
  /\ pingInterval = PingSteps
  /\ server = [phase |-> "running", exitAt |-> Null]
  /\ rateLimiter = [requests |-> [key \in Ips |-> << >>],
                    cleanupInterval |-> CleanupSteps]

ZeroStats == [totalBets |-> 0, totalWins |-> 0, totalLosses |-> 0]

\* createPlayer(alice, {bitcoin: 0.003}), createPlayer(bob, {bitcoin: 0.001})
Init ==
  /\ InitEngine
  /\ InitHub
  /\ players = Players
  /\ wallet = [p \in Players |->
                 [a \in Assets |-> IF a = "bitcoin"
                                   THEN (IF p = "alice" THEN 3000 ELSE 1000)
                                   ELSE 0]]
  /\ stats = [p \in Players |-> ZeroStats]

\* ------------------------------------------------------------ GameService
\* startNewRound committing to the round number before its increment
CreateRoundStale(seed) ==
  LET n == roundCounter + 1
      crashPoint == generateCrashPoint(seed, roundCounter)
      hash == generateHash(seed, roundCounter)
  IN  /\ roundCounter' = n
      /\ rounds' = Append(rounds, GameRound(n, seed, hash, crashPoint))
      /\ currentRound' = n
      /\ startTask' = [pc |-> "save", roundId |-> n, hash |-> hash]

\* the part of startNewRound from roundCounter++ to the await of save()
CreateRound(seed) ==
  LET n == roundCounter + 1
      crashPoint == generateCrashPoint(seed, n)
      hash == generateHash(seed, n)
  IN  /\ roundCounter' = n
      /\ rounds' = Append(rounds, GameRound(n, seed, hash, crashPoint))
      /\ currentRound' = n
      /\ startTask' = [pc |-> "save", roundId |-> n, hash |-> hash]

\* crashGame up to its first await; resume tells whether startNewRound awaits it
CrashGameBegin(rnds, resume) ==
  /\ isGameActive' = FALSE
  /\ multiplierInterval' = FALSE
  /\ rounds' = [rnds EXCEPT ![currentRound].status = "crashed",
                            ![currentRound].endTime = now,
                            ![currentRound].maxMultiplier =
                                rnds[currentRound].crashPoint * 100]
  /\ crashTasks' = Append(crashTasks, [pc |-> "save1", lost |-> << >>,
                                       resume |-> resume])

\* startGameLoop: startNewRound() and the interval
StartGameLoop ==
  /\ gameInterval = Null
  /\ roundCounter = 0
  /\ startTask.pc = "idle"
  /\ \E seed \in Seeds : CreateRound(seed)
  /\ gameInterval' = now + RoundSteps
  /\ UNCHANGED << isGameActive, currentMultiplier, gameStartTime,
                  multiplierInterval, now, lastTick, startTimers, crashTasks,
                  calls, storeVars, events >>

\* the interval fires: startNewRound, which first ends a live round
StartNewRound ==
  /\ gameInterval # Null
  /\ gameInterval <= now
  /\ roundCounter < MaxRounds
  /\ startTask.pc = "idle"
  /\ gameInterval' = gameInterval + RoundSteps
  /\ IF currentRound # 0 /\ isGameActive
     THEN /\ CrashGameBegin(rounds, TRUE)
          /\ startTask' = [IdleStart EXCEPT !.pc = "ending"]
          /\ UNCHANGED << currentRound, roundCounter >>
     ELSE /\ \E seed \in Seeds : CreateRound(seed)
          /\ UNCHANGED << isGameActive, multiplierInterval, crashTasks >>
  /\ UNCHANGED << currentMultiplier, gameStartTime, now, lastTick, startTimers,
                  calls, storeVars, events >>

\* startNewRound after await this.currentRound.save(): round_started, setTimeout
StartNewRoundSaved ==
  /\ startTask.pc = "save"
  /\ events' = Append(events, [Event("round_started", startTask.roundId)
                                 EXCEPT !.hash = startTask.hash])
  /\ startTimers' = Append(startTimers, now + BettingSteps)
  /\ startTask' = IdleStart
  /\ UNCHANGED << engineVars, now, gameInterval, lastTick, crashTasks, calls,
                  storeVars >>

RemoveAt(seq, i) == SubSeq(seq, 1, i - 1) \o SubSeq(seq, i + 1, Len(seq))

\* the timeout fires: startMultiplier
StartMultiplier ==
  \E i \in 1..Len(startTimers) :
    /\ startTimers[i] <= now
    /\ startTimers' = RemoveAt(startTimers, i)
    /\ IF currentRound = 0
       THEN UNCHANGED << engineVars, lastTick >>
       ELSE /\ rounds' = [rounds EXCEPT ![currentRound].status = "active"]
            /\ isGameActive' = TRUE
            /\ currentMultiplier' = MultScale
            /\ gameStartTime' = now
            /\ multiplierInterval' = TRUE
            /\ lastTick' = now
            /\ UNCHANGED << currentRound, roundCounter >>
    /\ UNCHANGED << now, gameInterval, taskVars, calls, storeVars, events >>

\* the 100 ms interval fires: updateMultiplier
UpdateMultiplier ==
  /\ multiplierInterval
  /\ lastTick < now
  /\ lastTick' = now
  /\ IF ~isGameActive \/ currentRound = 0
     THEN UNCHANGED << engineVars, crashTasks, events >>
     ELSE LET r == rounds[currentRound]
              m == MultiplierAt((now - gameStartTime) * GridMs, r.crashPoint)
              rnds == IF JsGt(m, r.maxMultiplier)
                      THEN [rounds EXCEPT ![currentRound].maxMultiplier = m]
                      ELSE rounds
          IN  /\ currentMultiplier' = m
              /\ IF JsGe(m, r.crashPoint * 100)
                 THEN /\ CrashGameBegin(rnds, FALSE)
                      /\ UNCHANGED events
                 ELSE /\ rounds' = rnds
                      /\ events' = Append(events,
                             [Event("multiplier_update", r.roundId)
                                EXCEPT !.multiplier = RoundMultiplier(m)])
                      /\ UNCHANGED << isGameActive, multiplierInterval,
                                      crashTasks >>
              /\ UNCHANGED << currentRound, roundCounter, gameStartTime >>
  /\ UNCHANGED << now, gameInterval, startTimers, startTask, calls, storeVars >>

\* processLostBets: the bets of the current round that did not cash out
LostBets ==
  IF currentRound = 0 THEN << >>
  ELSE LET bets == rounds[currentRound].bets
       IN  SelectSeq(bets, LAMBDA b : ~b.cashedOut)

\* crashGame after processLostBets: game_crashed, status 'completed'
CrashGameReveal(i, rest) ==
  LET r == rounds[currentRound]
  IN  /\ events' = Append(events, [Event("game_crashed", r.roundId)
                                     EXCEPT !.crashPoint = r.crashPoint,
                                            !.seed = r.seed])
      /\ rounds' = [rounds EXCEPT ![currentRound].status = "completed"]
      /\ crashTasks' = [crashTasks EXCEPT ![i].pc = "save2", ![i].lost = rest]

\* crashGame after its first save(): processLostBets starts
CrashGameSaved ==
  \E i \in 1..Len(crashTasks) :
    /\ crashTasks[i].pc = "save1"
    /\ IF LostBets = << >>
       THEN CrashGameReveal(i, << >>)
       ELSE /\ crashTasks' = [crashTasks EXCEPT ![i].pc = "lost",
                                                ![i].lost = LostBets]
            /\ UNCHANGED << rounds, events >>
    /\ UNCHANGED << currentRound, roundCounter, isGameActive, currentMultiplier,
                    gameStartTime, multiplierInterval, timerVars, startTask,
                    calls, storeVars >>

\* Player.findOneAndUpdate({playerId}, {$inc: {totalLosses: 1, totalBets: 1}})
IncLoss(p) ==
  IF p \in players
  THEN [stats EXCEPT ![p].totalLosses = @ + 1, ![p].totalBets = @ + 1]
  ELSE stats

\* processLostBets: one findOneAndUpdate returns
ProcessLostBet ==
  \E i \in 1..Len(crashTasks) :
    /\ crashTasks[i].pc = "lost"
    /\ stats' = IncLoss(Head(crashTasks[i].lost).playerId)
    /\ IF Len(crashTasks[i].lost) = 1
       THEN CrashGameReveal(i, << >>)
       ELSE /\ crashTasks' = [crashTasks EXCEPT ![i].lost = Tail(@)]
            /\ UNCHANGED << rounds, events >>
    /\ UNCHANGED << currentRound, roundCounter, isGameActive, currentMultiplier,
                    gameStartTime, multiplierInterval, timerVars, startTask,
                    calls, players, wallet, txLog >>

\* crashGame returns; a startNewRound that awaited endCurrentRound goes on
CrashGameDone ==
  \E i \in 1..Len(crashTasks) :
    /\ crashTasks[i].pc = "save2"
    /\ crashTasks' = RemoveAt(crashTasks, i)
    /\ IF crashTasks[i].resume
       THEN \E seed \in Seeds : CreateRound(seed)
       ELSE UNCHANGED << currentRound, roundCounter, rounds, startTask >>
    /\ UNCHANGED << isGameActive, currentMultiplier, gameStartTime,
                    multiplierInterval, timerVars, calls, storeVars, events >>

\* ------------------------------------------------- requests (GameService)
UsdAmounts == {67}
UpstreamPrice(cryptocurrency) ==
  IF cryptocurrency = "bitcoin" THEN FallbackBitcoin \div 2
  ELSE FallbackEthereum \div 2

\* getCurrentPrice on a CryptoService whose cache is empty (placeBet makes a
\* new CryptoService each time): the upstream price, or on any failure the
\* hard-coded fallback
FreshPrice(cryptocurrency, upstreamOk) ==
  IF upstreamOk THEN UpstreamPrice(cryptocurrency)
  ELSE IF cryptocurrency = "bitcoin" THEN FallbackBitcoin
  ELSE FallbackEthereum

NoTx == [playerId |-> Null, roundId |-> Null, transactionType |-> Null,
         usdAmount |-> Null, cryptoAmount |-> Null, cryptocurrency |-> Null,
         priceAtTime |-> Null, multiplier |-> Null]

\* new Transaction({...})
Transaction(playerId, roundId, type, usd, crypto, cryptocurrency, price, mult) ==
  [playerId |-> playerId, roundId |-> roundId, transactionType |-> type,
   usdAmount |-> usd, cryptoAmount |-> crypto,
   cryptocurrency |-> cryptocurrency, priceAtTime |-> price,
   multiplier |-> mult]

\* a request and the locals of its handler
Call(kind, playerId, amount, cryptocurrency) ==
  [kind |-> kind, pc |-> "done", playerId |-> playerId, amount |-> amount,
   cryptocurrency |-> cryptocurrency, price |-> Null, cryptoAmount |-> Null,
   doc |-> Null, docWins |-> Null, docBets |-> Null, toPlayerId |-> Null,
   toDoc |-> Null, betRound |-> 0, betIx |-> 0, multiplier |-> Null,
   tx |-> NoTx, error |-> "none", since |-> Null]

\* the handler is over: its locals are gone, the reply is kept
Return(call) ==
  [Call(call.kind, call.playerId, Null, Null) EXCEPT !.error = call.error]

Throw(call, message) == Return([call EXCEPT !.error = message])

\* x * m for a multiplier m
Times(x, m) == MulDiv(x, m, MultScale)

\* the bet object of placeBet; the schema defaults fill the cashout fields
Bet(playerId, usdAmount, cryptoAmount, cryptocurrency, price) ==
  [playerId |-> playerId, usdAmount |-> usdAmount, cryptoAmount |-> cryptoAmount,
   cryptocurrency |-> cryptocurrency, priceAtTime |-> price,
   cashedOut |-> FALSE, cashoutMultiplier |-> Null, cashoutAmount |-> Null]

\* placeBet without the check of the round's status
PlaceBetAnyStatus ==
  \E playerId \in Players, usdAmount \in UsdAmounts, cryptocurrency \in Assets :
    LET call == Call("placeBet", playerId, usdAmount, cryptocurrency)
    IN  /\ roundCounter > 0
        /\ Len(calls) < MaxCalls
        /\ calls' = Append(calls,
             IF usdAmount <= 0
             THEN Throw(call, "Bet amount must be positive")
             ELSE [call EXCEPT !.pc = "price", !.since = now])
        /\ UNCHANGED << engineVars, timerVars, taskVars, storeVars, events >>

\* placeBet up to await cryptoService.getCurrentPrice(cryptocurrency)
PlaceBet ==
  \E playerId \in Players, usdAmount \in UsdAmounts, cryptocurrency \in Assets :
    LET call == Call("placeBet", playerId, usdAmount, cryptocurrency)
    IN  /\ roundCounter > 0
        /\ Len(calls) < MaxCalls
        /\ calls' = Append(calls,
             IF currentRound = 0 \/ rounds[currentRound].status # "waiting"
             THEN Throw(call, "No active round accepting bets")
             ELSE IF usdAmount <= 0
             THEN Throw(call, "Bet amount must be positive")
             ELSE [call EXCEPT !.pc = "price", !.since = now])
        /\ UNCHANGED << engineVars, timerVars, taskVars, storeVars, events >>

\* the price arrives: cryptoAmount = usdAmount / price, then Player.findOne
PlaceBetPrice ==
  \E c \in 1..Len(calls), upstreamOk \in BOOLEAN :
    LET call == calls[c]
        price == FreshPrice(call.cryptocurrency, upstreamOk)
    IN  /\ call.kind = "placeBet"
        /\ call.pc = "price"
        /\ calls' = [calls EXCEPT ![c].pc = "find", ![c].price = price,
                       ![c].since = Null,
                       ![c].cryptoAmount = (call.amount * CoinScale) \div price]
        /\ UNCHANGED << engineVars, timerVars, taskVars, storeVars, events >>

\* placeBet without the balance check
PlaceBetFoundUnchecked ==
  \E c \in 1..Len(calls) :
    LET call == calls[c]
    IN  /\ call.kind = "placeBet"
        /\ call.pc = "find"
        /\ calls' = [calls EXCEPT ![c] =
             IF call.playerId \notin players
             THEN Throw(call, "Player not found")
             ELSE [call EXCEPT !.pc = "save",
                     !.doc = wallet[call.playerId][call.cryptocurrency]
                             - call.cryptoAmount]]
        /\ UNCHANGED << engineVars, timerVars, taskVars, storeVars, events >>

\* the player arrives: the balance check and the debit of the loaded document
PlaceBetFound ==
  \E c \in 1..Len(calls) :
    LET call == calls[c]
    IN  /\ call.kind = "placeBet"
        /\ call.pc = "find"
        /\ calls' = [calls EXCEPT ![c] =
             IF call.playerId \notin players
             THEN Throw(call, "Player not found")
             ELSE IF wallet[call.playerId][call.cryptocurrency] < call.cryptoAmount
             THEN Throw(call, "Insufficient balance")
             ELSE [call EXCEPT !.pc = "save",
                     !.doc = wallet[call.playerId][call.cryptocurrency]
                             - call.cryptoAmount]]
        /\ UNCHANGED << engineVars, timerVars, taskVars, storeVars, events >>

\* player.save() returns: this.currentRound.bets.push(bet)
PlaceBetSaved ==
  \E c \in 1..Len(calls) :
    LET call == calls[c]
        bet == Bet(call.playerId, call.amount, call.cryptoAmount,
                   call.cryptocurrency, call.price)
    IN  /\ call.kind = "placeBet"
        /\ call.pc = "save"
        /\ wallet' = [wallet EXCEPT ![call.playerId][call.cryptocurrency] = call.doc]
        /\ rounds' = [rounds EXCEPT ![currentRound].bets = Append(@, bet)]
        /\ calls' = [calls EXCEPT ![c].pc = "roundsave",
                       ![c].betRound = currentRound,
                       ![c].betIx = Len(rounds[currentRound].bets) + 1]
        /\ UNCHANGED << currentRound, roundCounter, isGameActive,
                        currentMultiplier, gameStartTime, multiplierInterval,
                        timerVars, taskVars, players, stats, txLog, events >>

\* this.currentRound.save() returns: the bet Transaction is built
PlaceBetRoundSaved ==
  \E c \in 1..Len(calls) :
    LET call == calls[c]
    IN  /\ call.kind = "placeBet"
        /\ call.pc = "roundsave"
        /\ calls' = [calls EXCEPT ![c].pc = "txsave",
                       ![c].tx = Transaction(call.playerId,
                                   rounds[currentRound].roundId, "bet",
                                   call.amount, call.cryptoAmount,
                                   call.cryptocurrency, call.price, Null)]
        /\ UNCHANGED << engineVars, timerVars, taskVars, storeVars, events >>

\* transaction.save() returns: bet_placed is broadcast
PlaceBetTxSaved ==
  \E c \in 1..Len(calls) :
    LET call == calls[c]
    IN  /\ call.kind = "placeBet"
        /\ call.pc = "txsave"
        /\ txLog' = Append(txLog, call.tx)
        /\ events' = Append(events,
             [Event("bet_placed", rounds[currentRound].roundId)
                EXCEPT !.playerId = call.playerId,
                       !.cryptoAmount = call.cryptoAmount,
                       !.cryptocurrency = call.cryptocurrency])
        /\ calls' = [calls EXCEPT ![c] = Return(call)]
        /\ UNCHANGED << engineVars, timerVars, taskVars, players, wallet, stats >>

\* the wagers of playerId in the current round, cashed out or not
BetsOf(playerId) ==
  IF currentRound = 0 THEN {}
  ELSE {i \in 1..Len(rounds[currentRound].bets) :
          rounds[currentRound].bets[i].playerId = playerId}

\* this.currentRound.bets.find(b => b.playerId === playerId && !b.cashedOut)
OpenBets(playerId) ==
  IF currentRound = 0 THEN {}
  ELSE {i \in 1..Len(rounds[currentRound].bets) :
          /\ rounds[currentRound].bets[i].playerId = playerId
          /\ ~rounds[currentRound].bets[i].cashedOut}

FindBet(playerId) ==
  CHOOSE i \in OpenBets(playerId) : \A j \in OpenBets(playerId) : i <= j

\* cashOut without the check of the live state
CashOutAnyState ==
  \E playerId \in Players :
    LET call == Call("cashOut", playerId, Null, Null)
        i == FindBet(playerId)
        bet == rounds[currentRound].bets[i]
        valid == currentMultiplier # NaN
    IN  /\ roundCounter > 0
        /\ Len(calls) < MaxCalls
        /\ IF OpenBets(playerId) = {}
           THEN /\ calls' = Append(calls,
                      Throw(call, "No active bet found for player"))
                /\ UNCHANGED rounds
           ELSE /\ rounds' = [rounds EXCEPT ![currentRound].bets[i] =
                      [bet EXCEPT !.cashedOut = TRUE,
                         !.cashoutMultiplier =
                            IF valid THEN currentMultiplier ELSE Null,
                         !.cashoutAmount =
                            IF valid THEN Times(bet.cryptoAmount, currentMultiplier)
                            ELSE Null]]
                /\ calls' = Append(calls,
                      [call EXCEPT !.pc = "roundsave",
                         !.amount = bet.usdAmount,
                         !.cryptocurrency = bet.cryptocurrency,
                         !.price = bet.priceAtTime,
                         !.cryptoAmount = bet.cryptoAmount,
                         !.betRound = currentRound, !.betIx = i,
                         !.multiplier = currentMultiplier])
        /\ UNCHANGED << currentRound, roundCounter, isGameActive,
                        currentMultiplier, gameStartTime, multiplierInterval,
                        timerVars, taskVars, storeVars, events >>

\* cashOut up to await this.currentRound.save().  A NaN multiplier does not
\* cast to the Number fields of the bet: they stay null and save() rejects.
CashOutUpTo(limit) ==
  \E playerId \in Players :
    LET call == Call("cashOut", playerId, Null, Null)
        i == FindBet(playerId)
        bet == rounds[currentRound].bets[i]
        valid == currentMultiplier # NaN
    IN  /\ roundCounter > 0
        /\ Len(calls) < limit
        /\ IF currentRound = 0 \/ ~isGameActive
           THEN /\ calls' = Append(calls,
                      Throw(call, "No active round or game not in progress"))
                /\ UNCHANGED rounds
           ELSE IF OpenBets(playerId) = {}
           THEN /\ calls' = Append(calls,
                      Throw(call, "No active bet found for player"))
                /\ UNCHANGED rounds
           ELSE /\ rounds' = [rounds EXCEPT ![currentRound].bets[i] =
                      [bet EXCEPT !.cashedOut = TRUE,
                         !.cashoutMultiplier =
                            IF valid THEN currentMultiplier ELSE Null,
                         !.cashoutAmount =
                            IF valid THEN Times(bet.cryptoAmount, currentMultiplier)
                            ELSE Null]]
                /\ calls' = Append(calls,
                      [call EXCEPT !.pc = "roundsave",
                         !.amount = bet.usdAmount,
                         !.cryptocurrency = bet.cryptocurrency,
                         !.price = bet.priceAtTime,
                         !.cryptoAmount = bet.cryptoAmount,
                         !.betRound = currentRound, !.betIx = i,
                         !.multiplier = currentMultiplier])
        /\ UNCHANGED << currentRound, roundCounter, isGameActive,
                        currentMultiplier, gameStartTime, multiplierInterval,
                        timerVars, taskVars, storeVars, events >>

\* cashOut as one of at most MaxCalls requests
CashOut == CashOutUpTo(MaxCalls)

\* this.currentRound.save() returns (or rejects): Player.findOne
CashOutRoundSaved ==
  \E c \in 1..Len(calls) :
    LET call == calls[c]
    IN  /\ call.kind = "cashOut"
        /\ call.pc = "roundsave"
        /\ calls' = [calls EXCEPT ![c] =
             IF call.multiplier = NaN
             THEN Throw(call, "GameRound validation failed")
             ELSE [call EXCEPT !.pc = "find"]]
        /\ UNCHANGED << engineVars, timerVars, taskVars, storeVars, events >>

\* the player arrives: the credit and the counters of the loaded document
CashOutFound ==
  \E c \in 1..Len(calls) :
    LET call == calls[c]
    IN  /\ call.kind = "cashOut"
        /\ call.pc = "find"
        /\ calls' = [calls EXCEPT ![c] =
             IF call.playerId \notin players
             THEN Throw(call, "Cannot read properties of null")
             ELSE [call EXCEPT !.pc = "save",
                     !.doc = wallet[call.playerId][call.cryptocurrency]
                             + Times(call.cryptoAmount, call.multiplier),
                     !.docWins = stats[call.playerId].totalWins + 1,
                     !.docBets = stats[call.playerId].totalBets + 1]]
        /\ UNCHANGED << engineVars, timerVars, taskVars, storeVars, events >>

\* player.save() returns: the cashout Transaction is built
CashOutSaved ==
  \E c \in 1..Len(calls) :
    LET call == calls[c]
    IN  /\ call.kind = "cashOut"
        /\ call.pc = "save"
        /\ wallet' = [wallet EXCEPT ![call.playerId][call.cryptocurrency] = call.doc]
        /\ stats' = [stats EXCEPT ![call.playerId].totalWins = call.docWins,
                                  ![call.playerId].totalBets = call.docBets]
        /\ calls' = [calls EXCEPT ![c].pc = "txsave",
                       ![c].tx = Transaction(call.playerId,
                                   rounds[currentRound].roundId, "cashout",
                                   Times(call.amount, call.multiplier),
                                   Times(call.cryptoAmount, call.multiplier),
                                   call.cryptocurrency, call.price,
                                   call.multiplier)]
        /\ UNCHANGED << engineVars, timerVars, taskVars, players, txLog, events >>

\* transaction.save() returns: player_cashed_out is broadcast
CashOutTxSaved ==
  \E c \in 1..Len(calls) :
    LET call == calls[c]
    IN  /\ call.kind = "cashOut"
        /\ call.pc = "txsave"
        /\ txLog' = Append(txLog, call.tx)
        /\ events' = Append(events,
             [Event("player_cashed_out", rounds[currentRound].roundId)
                EXCEPT !.playerId = call.playerId,
                       !.multiplier = call.multiplier,
                       !.cryptocurrency = call.cryptocurrency])
        /\ calls' = [calls EXCEPT ![c] = Return(call)]
        /\ UNCHANGED << engineVars, timerVars, taskVars, players, wallet, stats >>

\* ------------------------------------------------ requests (WalletService)
Amounts == {1000}
InitialBalances == {0, 1000}

\* a store write is acknowledged or rejected
StoreOutcomes == BOOLEAN

\* the constructor of GameService, over an empty store
InitWallet ==
  /\ InitEngine
  /\ InitHub
  /\ players = {}
  /\ wallet = [p \in Players |-> [a \in Assets |-> 0]]
  /\ stats = [p \in Players |-> ZeroStats]

\* createPlayer up to await Player.findOne({$or: [{playerId}, {username}]})
CreatePlayer ==
  \E playerId \in Players, bitcoin \in InitialBalances :
    /\ Len(calls) < MaxWalletCalls
    /\ calls' = Append(calls, [Call("createPlayer", playerId, bitcoin, "bitcoin")
                                 EXCEPT !.pc = "find"])
    /\ UNCHANGED << engineVars, timerVars, taskVars, storeVars, events >>

\* the lookup returns: new Player({playerId, username, wallet})
CreatePlayerFound ==
  \E c \in 1..Len(calls) :
    LET call == calls[c]
    IN  /\ call.kind = "createPlayer"
        /\ call.pc = "find"
        /\ calls' = [calls EXCEPT ![c] =
             IF call.playerId \in players
             THEN Throw(call, "Player ID or username already exists")
             ELSE [call EXCEPT !.pc = "save"]]
        /\ UNCHANGED << engineVars, timerVars, taskVars, storeVars, events >>

\* player.save() returns; the unique index rejects a second insert
CreatePlayerSaved ==
  \E c \in 1..Len(calls) :
    LET call == calls[c]
    IN  /\ call.kind = "createPlayer"
        /\ call.pc = "save"
        /\ IF call.playerId \in players
           THEN /\ calls' = [calls EXCEPT ![c] = Throw(call, "E11000 duplicate key")]
                /\ UNCHANGED << players, wallet, stats >>
           ELSE /\ players' = players \cup {call.playerId}
                /\ wallet' = [wallet EXCEPT ![call.playerId] =
                                [a \in Assets |-> IF a = "bitcoin" THEN call.amount
                                                  ELSE 0]]
                /\ stats' = [stats EXCEPT ![call.playerId] = ZeroStats]
                /\ calls' = [calls EXCEPT ![c] = Return(call)]
        /\ UNCHANGED << engineVars, timerVars, taskVars, txLog, events >>

\* depositCrypto up to await Player.findOne({playerId})
DepositCrypto ==
  \E playerId \in Players, amount \in Amounts, cryptocurrency \in Assets :
    LET call == Call("deposit", playerId, amount, cryptocurrency)
    IN  /\ Len(calls) < MaxWalletCalls
        /\ calls' = Append(calls,
             IF amount <= 0 THEN Throw(call, "Deposit amount must be positive")
             ELSE IF cryptocurrency \notin {"bitcoin", "ethereum"}
             THEN Throw(call, "Unsupported cryptocurrency")
             ELSE [call EXCEPT !.pc = "find", !.cryptoAmount = amount])
        /\ UNCHANGED << engineVars, timerVars, taskVars, storeVars, events >>

\* withdrawCrypto up to await Player.findOne({playerId})
WithdrawCrypto ==
  \E playerId \in Players, amount \in Amounts, cryptocurrency \in Assets :
    LET call == Call("withdraw", playerId, amount, cryptocurrency)
    IN  /\ Len(calls) < MaxWalletCalls
        /\ calls' = Append(calls,
             IF amount <= 0 THEN Throw(call, "Withdrawal amount must be positive")
             ELSE IF cryptocurrency \notin {"bitcoin", "ethereum"}
             THEN Throw(call, "Unsupported cryptocurrency")
             ELSE [call EXCEPT !.pc = "find", !.cryptoAmount = amount])
        /\ UNCHANGED << engineVars, timerVars, taskVars, storeVars, events >>

\* the player arrives: player.wallet[cryptocurrency] += amount
DepositFound ==
  \E c \in 1..Len(calls) :
    LET call == calls[c]
    IN  /\ call.kind = "deposit"
        /\ call.pc = "find"
        /\ calls' = [calls EXCEPT ![c] =
             IF call.playerId \notin players
             THEN Throw(call, "Player not found")
             ELSE [call EXCEPT !.pc = "save",
                     !.doc = wallet[call.playerId][call.cryptocurrency]
                             + call.cryptoAmount]]
        /\ UNCHANGED << engineVars, timerVars, taskVars, storeVars, events >>

\* withdrawCrypto without the balance check
WithdrawFoundUnchecked ==
  \E c \in 1..Len(calls) :
    LET call == calls[c]
    IN  /\ call.kind = "withdraw"
        /\ call.pc = "find"
        /\ calls' = [calls EXCEPT ![c] =
             IF call.playerId \notin players
             THEN Throw(call, "Player not found")
             ELSE [call EXCEPT !.pc = "save",
                     !.doc = wallet[call.playerId][call.cryptocurrency]
                             - call.cryptoAmount]]
        /\ UNCHANGED << engineVars, timerVars, taskVars, storeVars, events >>

\* the player arrives: the balance check, player.wallet[cryptocurrency] -= amount
WithdrawFound ==
  \E c \in 1..Len(calls) :
    LET call == calls[c]
    IN  /\ call.kind = "withdraw"
        /\ call.pc = "find"
        /\ calls' = [calls EXCEPT ![c] =
             IF call.playerId \notin players
             THEN Throw(call, "Player not found")
             ELSE IF wallet[call.playerId][call.cryptocurrency] < call.cryptoAmount
             THEN Throw(call, "Insufficient balance")
             ELSE [call EXCEPT !.pc = "save",
                     !.doc = wallet[call.playerId][call.cryptocurrency]
                             - call.cryptoAmount]]
        /\ UNCHANGED << engineVars, timerVars, taskVars, storeVars, events >>

\* player.save() of depositCrypto / withdrawCrypto returns: the price lookup
WalletSaved ==
  \E c \in 1..Len(calls), ok \in StoreOutcomes :
    LET call == calls[c]
    IN  /\ call.kind \in {"deposit", "withdraw"}
        /\ call.pc = "save"
        /\ IF ok
           THEN /\ wallet' = [wallet EXCEPT
                                ![call.playerId][call.cryptocurrency] = call.doc]
                /\ calls' = [calls EXCEPT ![c].pc = "price"]
           ELSE /\ calls' = [calls EXCEPT ![c] = Throw(call, "store error")]
                /\ UNCHANGED wallet
        /\ UNCHANGED << engineVars, timerVars, taskVars, players, stats, txLog,
                        events >>

\* the transactionType recorded by a wallet operation
WalletTxType(kind) == IF kind = "deposit" THEN "deposit" ELSE "withdrawal"

\* the price arrives: the Transaction is built
WalletPrice ==
  \E c \in 1..Len(calls), upstreamOk \in BOOLEAN :
    LET call == calls[c]
        price == FreshPrice(call.cryptocurrency, upstreamOk)
    IN  /\ call.kind \in {"deposit", "withdraw"}
        /\ call.pc = "price"
        /\ calls' = [calls EXCEPT ![c].pc = "txsave", ![c].price = price,
                       ![c].tx = Transaction(call.playerId, call.kind,
                                   WalletTxType(call.kind),
                                   MulDiv(call.cryptoAmount, price, CoinScale),
                                   call.cryptoAmount, call.cryptocurrency,
                                   price, Null)]
        /\ UNCHANGED << engineVars, timerVars, taskVars, storeVars, events >>

\* transaction.save() returns
WalletTxSaved ==
  \E c \in 1..Len(calls), ok \in StoreOutcomes :
    LET call == calls[c]
    IN  /\ call.kind \in {"deposit", "withdraw"}
        /\ call.pc = "txsave"
        /\ IF ok
           THEN /\ txLog' = Append(txLog, call.tx)
                /\ calls' = [calls EXCEPT ![c] = Return(call)]
           ELSE /\ calls' = [calls EXCEPT ![c] = Throw(call, "store error")]
                /\ UNCHANGED txLog
        /\ UNCHANGED << engineVars, timerVars, taskVars, players, wallet, stats,
                        events >>

\* transferCrypto up to await Player.findOne({playerId: fromPlayerId})
TransferCrypto ==
  \E fromPlayerId \in Players, toPlayerId \in Players, amount \in Amounts,
     cryptocurrency \in Assets :
    LET call == [Call("transfer", fromPlayerId, amount, cryptocurrency)
                   EXCEPT !.toPlayerId = toPlayerId]
    IN  /\ Len(calls) < MaxWalletCalls
        /\ calls' = Append(calls,
             IF amount <= 0 THEN Throw(call, "Transfer amount must be positive")
             ELSE IF cryptocurrency \notin {"bitcoin", "ethereum"}
             THEN Throw(call, "Unsupported cryptocurrency")
             ELSE IF fromPlayerId = toPlayerId
             THEN Throw(call, "Cannot transfer to the same player")
             ELSE [call EXCEPT !.pc = "findFrom", !.cryptoAmount = amount])
        /\ UNCHANGED << engineVars, timerVars, taskVars, storeVars, events >>

\* the sender arrives (or null): await Player.findOne({playerId: toPlayerId})
TransferFromFound ==
  \E c \in 1..Len(calls) :
    LET call == calls[c]
    IN  /\ call.kind = "transfer"
        /\ call.pc = "findFrom"
        /\ calls' = [calls EXCEPT ![c].pc = "findTo",
                       ![c].doc = IF call.playerId \in players
                                  THEN wallet[call.playerId][call.cryptocurrency]
                                  ELSE Null]
        /\ UNCHANGED << engineVars, timerVars, taskVars, storeVars, events >>

\* the receiver arrives (or null): the checks and both in-memory updates
TransferToFound ==
  \E c \in 1..Len(calls) :
    LET call == calls[c]
    IN  /\ call.kind = "transfer"
        /\ call.pc = "findTo"
        /\ calls' = [calls EXCEPT ![c] =
             IF call.doc = Null THEN Throw(call, "Sender player not found")
             ELSE IF call.toPlayerId \notin players
             THEN Throw(call, "Receiver player not found")
             ELSE IF call.doc < call.cryptoAmount
             THEN Throw(call, "Insufficient balance")
             ELSE [call EXCEPT !.pc = "saveFrom",
                     !.doc = call.doc - call.cryptoAmount,
                     !.toDoc = wallet[call.toPlayerId][call.cryptocurrency]
                               + call.cryptoAmount]]
        /\ UNCHANGED << engineVars, timerVars, taskVars, storeVars, events >>

\* fromPlayer.save() returns
TransferFromSaved ==
  \E c \in 1..Len(calls), ok \in StoreOutcomes :
    LET call == calls[c]
    IN  /\ call.kind = "transfer"
        /\ call.pc = "saveFrom"
        /\ IF ok
           THEN /\ wallet' = [wallet EXCEPT
                                ![call.playerId][call.cryptocurrency] = call.doc]
                /\ calls' = [calls EXCEPT ![c].pc = "saveTo"]
           ELSE /\ calls' = [calls EXCEPT ![c] = Throw(call, "store error")]
                /\ UNCHANGED wallet
        /\ UNCHANGED << engineVars, timerVars, taskVars, players, stats, txLog,
                        events >>

\* toPlayer.save() returns
TransferToSaved ==
  \E c \in 1..Len(calls), ok \in StoreOutcomes :
    LET call == calls[c]
    IN  /\ call.kind = "transfer"
        /\ call.pc = "saveTo"
        /\ IF ok
           THEN /\ wallet' = [wallet EXCEPT
                                ![call.toPlayerId][call.cryptocurrency] = call.toDoc]
                /\ calls' = [calls EXCEPT ![c].pc = "price"]
           ELSE /\ calls' = [calls EXCEPT ![c] = Throw(call, "store error")]
                /\ UNCHANGED wallet
        /\ UNCHANGED << engineVars, timerVars, taskVars, players, stats, txLog,
                        events >>

\* the price arrives: fromTransaction and toTransaction are built
TransferPrice ==
  \E c \in 1..Len(calls), upstreamOk \in BOOLEAN :
    LET call == calls[c]
    IN  /\ call.kind = "transfer"
        /\ call.pc = "price"
        /\ calls' = [calls EXCEPT ![c].pc = "txFrom",
                       ![c].price = FreshPrice(call.cryptocurrency, upstreamOk)]
        /\ UNCHANGED << engineVars, timerVars, taskVars, storeVars, events >>

\* one leg of the transfer as a Transaction
TransferTx(call, playerId, type) ==
  Transaction(playerId, "transfer", type,
              MulDiv(call.cryptoAmount, call.price, CoinScale),
              call.cryptoAmount, call.cryptocurrency, call.price, Null)

\* fromTransaction.save() returns
TransferFromTxSaved ==
  \E c \in 1..Len(calls), ok \in StoreOutcomes :
    LET call == calls[c]
    IN  /\ call.kind = "transfer"
        /\ call.pc = "txFrom"
        /\ IF ok
           THEN /\ txLog' = Append(txLog,
                                   TransferTx(call, call.playerId, "withdrawal"))
                /\ calls' = [calls EXCEPT ![c].pc = "txTo"]
           ELSE /\ calls' = [calls EXCEPT ![c] = Throw(call, "store error")]
                /\ UNCHANGED txLog
        /\ UNCHANGED << engineVars, timerVars, taskVars, players, wallet, stats,
                        events >>

\* toTransaction.save() returns
TransferToTxSaved ==
  \E c \in 1..Len(calls), ok \in StoreOutcomes :
    LET call == calls[c]
    IN  /\ call.kind = "transfer"
        /\ call.pc = "txTo"
        /\ IF ok
           THEN /\ txLog' = Append(txLog,
                                   TransferTx(call, call.toPlayerId, "deposit"))
                /\ calls' = [calls EXCEPT ![c] = Return(call)]
           ELSE /\ calls' = [calls EXCEPT ![c] = Throw(call, "store error")]
                /\ UNCHANGED txLog
        /\ UNCHANGED << engineVars, timerVars, taskVars, players, wallet, stats,
                        events >>

\* ------------------------------------------------------------------ time
TimerDue ==
  \/ gameInterval # Null /\ gameInterval <= now /\ roundCounter < MaxRounds
  \/ \E i \in 1..Len(startTimers) : startTimers[i] <= now
  \/ multiplierInterval /\ lastTick < now

\* only the upstream price request of a call may still be pending, and for
\* at most MaxPriceSteps
StoreQuiet ==
  /\ startTask.pc = "idle"
  /\ crashTasks = << >>
  /\ \A c \in 1..Len(calls) :
        \/ calls[c].pc = "done"
        \/ calls[c].pc = "price" /\ now - calls[c].since < MaxPriceSteps

Advance ==
  /\ gameInterval # Null
  /\ now < Horizon
  /\ ~TimerDue
  /\ StoreQuiet
  /\ now' = now + 1
  /\ UNCHANGED << engineVars, gameInterval, lastTick, startTimers, taskVars,
                  calls, storeVars, events >>

Next ==
  \/ StartGameLoop /\ UNCHANGED hubVars
  \/ StartNewRound /\ UNCHANGED hubVars
  \/ StartNewRoundSaved /\ UNCHANGED hubVars
  \/ StartMultiplier /\ UNCHANGED hubVars
  \/ UpdateMultiplier /\ UNCHANGED hubVars
  \/ CrashGameSaved /\ UNCHANGED hubVars
  \/ ProcessLostBet /\ UNCHANGED hubVars
  \/ CrashGameDone /\ UNCHANGED hubVars
  \/ PlaceBet /\ UNCHANGED hubVars
  \/ PlaceBetPrice /\ UNCHANGED hubVars
  \/ PlaceBetFound /\ UNCHANGED hubVars
  \/ PlaceBetSaved /\ UNCHANGED hubVars
  \/ PlaceBetRoundSaved /\ UNCHANGED hubVars
  \/ PlaceBetTxSaved /\ UNCHANGED hubVars
  \/ CashOut /\ UNCHANGED hubVars
  \/ CashOutRoundSaved /\ UNCHANGED hubVars
  \/ CashOutFound /\ UNCHANGED hubVars
  \/ CashOutSaved /\ UNCHANGED hubVars
  \/ CashOutTxSaved /\ UNCHANGED hubVars
  \/ Advance /\ UNCHANGED hubVars

Spec == Init /\ [][Next]_vars

\* the wallet requests alone, from an empty store
NextWallet ==
  \/ CreatePlayer /\ UNCHANGED hubVars
  \/ CreatePlayerFound /\ UNCHANGED hubVars
  \/ CreatePlayerSaved /\ UNCHANGED hubVars
  \/ DepositCrypto /\ UNCHANGED hubVars
  \/ WithdrawCrypto /\ UNCHANGED hubVars
  \/ DepositFound /\ UNCHANGED hubVars
  \/ WithdrawFound /\ UNCHANGED hubVars
  \/ WalletSaved /\ UNCHANGED hubVars
  \/ WalletPrice /\ UNCHANGED hubVars
  \/ WalletTxSaved /\ UNCHANGED hubVars
  \/ TransferCrypto /\ UNCHANGED hubVars
  \/ TransferFromFound /\ UNCHANGED hubVars
  \/ TransferToFound /\ UNCHANGED hubVars
  \/ TransferFromSaved /\ UNCHANGED hubVars
  \/ TransferToSaved /\ UNCHANGED hubVars
  \/ TransferPrice /\ UNCHANGED hubVars
  \/ TransferFromTxSaved /\ UNCHANGED hubVars
  \/ TransferToTxSaved /\ UNCHANGED hubVars

SpecWallet == InitWallet /\ [][NextWallet]_vars

\* ------------------------------------------------- rejected store writes
\* placeBet: await player.save() rejects; the debit was not written
PlaceBetSaveFailed ==
  \E c \in 1..Len(calls) :
    /\ calls[c].kind = "placeBet"
    /\ calls[c].pc = "save"
    /\ calls' = [calls EXCEPT ![c] = Throw(calls[c], "store error")]
    /\ UNCHANGED << engineVars, timerVars, taskVars, storeVars, events >>

\* placeBet: await this.currentRound.save() rejects after bets.push(bet)
PlaceBetRoundSaveFailed ==
  \E c \in 1..Len(calls) :
    /\ calls[c].kind = "placeBet"
    /\ calls[c].pc = "roundsave"
    /\ calls' = [calls EXCEPT ![c] = Throw(calls[c], "store error")]
    /\ UNCHANGED << engineVars, timerVars, taskVars, storeVars, events >>

\* placeBet: await transaction.save() rejects
PlaceBetTxSaveFailed ==
  \E c \in 1..Len(calls) :
    /\ calls[c].kind = "placeBet"
    /\ calls[c].pc = "txsave"
    /\ calls' = [calls EXCEPT ![c] = Throw(calls[c], "store error")]
    /\ UNCHANGED << engineVars, timerVars, taskVars, storeVars, events >>

\* the game with store writes of placeBet that may be rejected
NextFaulty ==
  \/ Next
  \/ PlaceBetSaveFailed /\ UNCHANGED hubVars
  \/ PlaceBetRoundSaveFailed /\ UNCHANGED hubVars
  \/ PlaceBetTxSaveFailed /\ UNCHANGED hubVars

SpecFaulty == Init /\ [][NextFaulty]_vars

\* cashOut: await Player.findOne rejects after the wager was marked and saved
CashOutFindFailed ==
  \E c \in 1..Len(calls) :
    /\ calls[c].kind = "cashOut"
    /\ calls[c].pc = "find"
    /\ calls' = [calls EXCEPT ![c] = Throw(calls[c], "store error")]
    /\ UNCHANGED << engineVars, timerVars, taskVars, storeVars, events >>

\* cashOut: await player.save() rejects; the credit was not written
CashOutSaveFailed ==
  \E c \in 1..Len(calls) :
    /\ calls[c].kind = "cashOut"
    /\ calls[c].pc = "save"
    /\ calls' = [calls EXCEPT ![c] = Throw(calls[c], "store error")]
    /\ UNCHANGED << engineVars, timerVars, taskVars, storeVars, events >>

\* cashOut: await transaction.save() rejects after the credit
CashOutTxSaveFailed ==
  \E c \in 1..Len(calls) :
    /\ calls[c].kind = "cashOut"
    /\ calls[c].pc = "txsave"
    /\ calls' = [calls EXCEPT ![c] = Throw(calls[c], "store error")]
    /\ UNCHANGED << engineVars, timerVars, taskVars, storeVars, events >>

\* The process ends and the server starts again over the same store: a new
\* GameService, then startGameLoop with the first startNewRound up to its
\* await. The rounds of the earlier run stay in the store; the new engine
\* counts its rounds from 1. One restart, at the end of the observed period,
\* with no handler in progress.
Startup ==
  \E seed \in Seeds :
    LET n == Len(rounds) + 1
        hash == generateHash(seed, 1)
    IN  /\ now = Horizon
        /\ Len(rounds) <= MaxRounds
        /\ Len(rounds) > 0
        /\ startTask.pc = "idle"
        /\ crashTasks = << >>
        /\ \A c \in 1..Len(calls) : calls[c].pc = "done"
        /\ roundCounter' = 1
        /\ rounds' = Append(rounds,
                            GameRound(n, seed, hash, generateCrashPoint(seed, 1)))
        /\ currentRound' = n
        /\ isGameActive' = FALSE
        /\ currentMultiplier' = MultScale
        /\ gameStartTime' = Null
        /\ multiplierInterval' = FALSE
        /\ gameInterval' = now + RoundSteps
        /\ startTimers' = << >>
        /\ startTask' = [pc |-> "save", roundId |-> n, hash |-> hash]
        /\ UNCHANGED << now, lastTick, crashTasks, calls, storeVars, events >>

\* the game with rejected store accesses of cashOut and a restart
NextRestart ==
  \/ Next
  \/ CashOutFindFailed /\ UNCHANGED hubVars
  \/ CashOutSaveFailed /\ UNCHANGED hubVars
  \/ CashOutTxSaveFailed /\ UNCHANGED hubVars
  \/ Startup /\ UNCHANGED hubVars

SpecRestart == Init /\ [][NextRestart]_vars

\* ---------------------------------------------- price lookups (CryptoService)
MaxPriceCalls == 2
CacheMs == 10000
TimeoutMs == 5000
CacheSteps == CacheMs \div GridMs
TimeoutSteps == TimeoutMs \div GridMs
PriceHorizon == 2 * CacheSteps

\* new CryptoService(): this.cache = new Map(); an asset without an entry
\* has the entry Absent
Absent == [price |-> Null, timestamp |-> Null]
EmptyCache == [a \in Assets |-> Absent]

\* cached && Date.now() - cached.timestamp < this.cacheDuration
CacheFresh(cache, cryptocurrency) ==
  /\ cache[cryptocurrency] # Absent
  /\ now - cache[cryptocurrency].timestamp < CacheSteps

\* this.cache.set(cacheKey, {price, timestamp: Date.now()}) after a reply with
\* a price; the catch block leaves the cache alone
CacheAfter(cache, cryptocurrency, upstreamOk) ==
  IF upstreamOk
  THEN [cache EXCEPT ![cryptocurrency] =
          [price |-> UpstreamPrice(cryptocurrency), timestamp |-> now]]
  ELSE cache

\* fallbackPrices[cryptocurrency] || 1
FallbackPrice(cryptocurrency) ==
  IF cryptocurrency = "bitcoin" THEN FallbackBitcoin
  ELSE IF cryptocurrency = "ethereum" THEN FallbackEthereum
  ELSE 1

\* getCurrentPrice whose catch block ignores the cache
PriceAfterNoCache(cache, cryptocurrency, upstreamOk) ==
  IF upstreamOk THEN UpstreamPrice(cryptocurrency)
  ELSE FallbackPrice(cryptocurrency)

\* what getCurrentPrice returns once axios.get has settled: the fetched
\* price, or in the catch block the cached price of any age, or the fallback
PriceAfter(cache, cryptocurrency, upstreamOk) ==
  IF upstreamOk THEN UpstreamPrice(cryptocurrency)
  ELSE IF cache[cryptocurrency] # Absent THEN cache[cryptocurrency].price
  ELSE FallbackPrice(cryptocurrency)

\* a request to a price endpoint and the locals of its handler; cache is the
\* cache of the CryptoService the handler has made, requests counts the
\* axios.get calls that service has issued
PriceCall(kind, usdAmount, cryptocurrency) ==
  [kind |-> kind, pc |-> "fetch", usdAmount |-> usdAmount,
   cryptocurrency |-> cryptocurrency, cache |-> EmptyCache, lookup |-> 1,
   since |-> now, requests |-> 1, cryptoAmount |-> Null, price |-> Null]

\* GET /price/:cryptocurrency up to await axios.get: the cache of the new
\* service is empty, so the lookup goes upstream
GetPrice ==
  \E cryptocurrency \in Assets :
    /\ Len(calls) < MaxPriceCalls
    /\ calls' = Append(calls, PriceCall("getPrice", Null, cryptocurrency))
    /\ UNCHANGED << engineVars, timerVars, taskVars, storeVars, events >>

\* POST /convert/usd-to-crypto up to await axios.get inside
\* convertUsdToCrypto
ConvertUsdToCrypto ==
  \E usdAmount \in UsdAmounts, cryptocurrency \in Assets :
    /\ Len(calls) < MaxPriceCalls
    /\ calls' = Append(calls,
                       PriceCall("convertUsdToCrypto", usdAmount, cryptocurrency))
    /\ UNCHANGED << engineVars, timerVars, taskVars, storeVars, events >>

\* axios.get settles (reply, error or timeout) and the handler runs to its
\* next await or to its reply; the second getCurrentPrice of the convert
\* handler reads the cache the first one has left
PriceFetched ==
  \E c \in 1..Len(calls), upstreamOk \in BOOLEAN :
    LET call == calls[c]
        cache == CacheAfter(call.cache, call.cryptocurrency, upstreamOk)
        price == PriceAfter(call.cache, call.cryptocurrency, upstreamOk)
        last == call.kind = "getPrice" \/ call.lookup = 2
        first == [call EXCEPT !.cache = cache, !.lookup = 2,
                    !.cryptoAmount = (call.usdAmount * CoinScale) \div price]
    IN  /\ call.kind \in {"getPrice", "convertUsdToCrypto"}
        /\ call.pc = "fetch"
        /\ calls' = [calls EXCEPT ![c] =
             IF last
             THEN [call EXCEPT !.pc = "done", !.cache = cache,
                     !.since = Null, !.price = price]
             ELSE IF CacheFresh(cache, call.cryptocurrency)
             THEN [first EXCEPT !.pc = "done", !.since = Null,
                     !.price = cache[call.cryptocurrency].price]
             ELSE [first EXCEPT !.since = now,
                     !.requests = call.requests + 1]]
        /\ UNCHANGED << engineVars, timerVars, taskVars, storeVars, events >>

\* time passes; axios gives up on a request after its timeout
PriceAdvance ==
  /\ now < PriceHorizon
  /\ \A c \in 1..Len(calls) :
        calls[c].pc = "fetch" => now - calls[c].since < TimeoutSteps
  /\ now' = now + 1
  /\ UNCHANGED << engineVars, gameInterval, lastTick, startTimers, taskVars,
                  calls, storeVars, events >>

NextPrice ==
  \/ GetPrice /\ UNCHANGED hubVars
  \/ ConvertUsdToCrypto /\ UNCHANGED hubVars
  \/ PriceFetched /\ UNCHANGED hubVars
  \/ PriceAdvance /\ UNCHANGED hubVars

SpecPrice == Init /\ [][NextPrice]_vars

\* ------------------------------------- one CryptoService object and its caller
MaxServices == 1
Tags == Assets \cup {"dogecoin"}
TagSets == {Assets, {"bitcoin"}, {"ethereum", "dogecoin"}}
Undefined == 0 - 3
ServiceHorizon == CacheSteps + 2

\* a reply with a usable price for the tag, a reply without one, or no reply
\* (network error, timeout)
Outcomes == {"price", "missing", "error"}

\* new CryptoService() and the last call made on it: op and asked are the
\* method and its argument, result is what it returned (Undefined: no such
\* property in the returned object), outcome is what axios.get did
Service ==
  [kind |-> "service", pc |-> "idle", cache |-> [t \in Tags |-> Absent],
   op |-> "none", asked |-> {}, uncached |-> {}, since |-> Null,
   requests |-> 0, outcome |-> "none", result |-> [t \in Tags |-> Null],
   error |-> "none"]

NewCryptoService ==
  /\ Len(calls) < MaxServices
  /\ calls' = Append(calls, Service)
  /\ UNCHANGED << engineVars, timerVars, taskVars, storeVars, events >>

\* getCurrentPrice(tag) up to its return from the cache or to await axios.get
GetCurrentPrice ==
  \E c \in 1..Len(calls), tag \in Tags :
    LET svc == calls[c]
        call == [svc EXCEPT !.op = "getCurrentPrice", !.asked = {tag},
                   !.requests = 0, !.outcome = "none",
                   !.result = [t \in Tags |-> Null]]
    IN  /\ svc.kind = "service"
        /\ svc.pc = "idle"
        /\ calls' = [calls EXCEPT ![c] =
             IF CacheFresh(svc.cache, tag)
             THEN [call EXCEPT !.result[tag] = svc.cache[tag].price]
             ELSE [call EXCEPT !.pc = "fetch", !.since = now,
                     !.requests = 1]]
        /\ UNCHANGED << engineVars, timerVars, taskVars, storeVars, events >>

\* getCurrentPrice after axios.get has settled
GetCurrentPriceSettled ==
  \E c \in 1..Len(calls), outcome \in Outcomes :
    LET svc == calls[c]
        tag == CHOOSE t \in svc.asked : TRUE
        upstreamOk == outcome = "price"
    IN  /\ svc.kind = "service"
        /\ svc.pc = "fetch"
        /\ calls' = [calls EXCEPT ![c] =
             [svc EXCEPT !.pc = "idle", !.since = Null, !.outcome = outcome,
                !.cache = CacheAfter(svc.cache, tag, upstreamOk),
                !.result[tag] = PriceAfter(svc.cache, tag, upstreamOk)]]
        /\ UNCHANGED << engineVars, timerVars, taskVars, storeVars, events >>

\* getCurrentPrices(cryptocurrencies) up to its return from the cache or to
\* await axios.get for uncachedCryptos
GetCurrentPrices ==
  \E c \in 1..Len(calls), cryptocurrencies \in TagSets :
    LET svc == calls[c]
        uncachedCryptos == {t \in cryptocurrencies : ~CacheFresh(svc.cache, t)}
        prices == [t \in Tags |->
                     IF t \notin cryptocurrencies THEN Null
                     ELSE IF t \in uncachedCryptos THEN Undefined
                     ELSE svc.cache[t].price]
        call == [svc EXCEPT !.op = "getCurrentPrices",
                   !.asked = cryptocurrencies, !.uncached = uncachedCryptos,
                   !.requests = 0, !.outcome = "none", !.result = prices]
    IN  /\ svc.kind = "service"
        /\ svc.pc = "idle"
        /\ calls' = [calls EXCEPT ![c] =
             IF uncachedCryptos = {}
             THEN call
             ELSE [call EXCEPT !.pc = "fetchAll", !.since = now,
                     !.requests = 1]]
        /\ UNCHANGED << engineVars, timerVars, taskVars, storeVars, events >>

\* getCurrentPrices after axios.get has settled: a reply with usable prices
\* for the tags in priced, or no reply
GetCurrentPricesSettled ==
  \E c \in 1..Len(calls), failed \in BOOLEAN :
    \E priced \in SUBSET calls[c].uncached :
      LET svc == calls[c]
      IN  /\ svc.kind = "service"
          /\ svc.pc = "fetchAll"
          /\ failed => priced = {}
          /\ calls' = [calls EXCEPT ![c] =
               IF failed
               THEN [svc EXCEPT !.pc = "idle", !.since = Null,
                       !.outcome = "error",
                       !.result = [t \in Tags |->
                          IF t \notin svc.asked THEN Null
                          ELSE PriceAfter(svc.cache, t, FALSE)]]
               ELSE [svc EXCEPT !.pc = "idle", !.since = Null,
                       !.outcome = IF priced = svc.uncached THEN "price"
                                   ELSE "missing",
                       !.cache = [t \in Tags |->
                          CacheAfter(svc.cache, t, t \in priced)[t]],
                       !.result = [t \in Tags |->
                          IF t \in priced THEN UpstreamPrice(t)
                          ELSE svc.result[t]]]]
          /\ UNCHANGED << engineVars, timerVars, taskVars, storeVars, events >>

\* time passes; axios gives up on a request after its timeout
ServiceAdvance ==
  /\ now < ServiceHorizon
  /\ \A c \in 1..Len(calls) :
        calls[c].pc # "idle" => now - calls[c].since < TimeoutSteps
  /\ now' = now + 1
  /\ UNCHANGED << engineVars, gameInterval, lastTick, startTimers, taskVars,
                  calls, storeVars, events >>

NextService ==
  \/ NewCryptoService /\ UNCHANGED hubVars
  \/ GetCurrentPrice /\ UNCHANGED hubVars
  \/ GetCurrentPriceSettled /\ UNCHANGED hubVars
  \/ GetCurrentPrices /\ UNCHANGED hubVars
  \/ GetCurrentPricesSettled /\ UNCHANGED hubVars
  \/ ServiceAdvance /\ UNCHANGED hubVars

SpecService == Init /\ [][NextService]_vars

\* ------------------------------------------------ the hub (WebSocketService)
\* no player id: null in the Map entry, a missing or empty playerId in a
\* message (all of them falsy)
NoPlayer == ""
PayloadIds == Players \cup {NoPlayer}

\* a message put on a socket; an engine event is named by its index in events
Message(type, ix, playerId) == [type |-> type, ix |-> ix, playerId |-> playerId]

\* the hub's heap: the Map and the sockets its entries point to
Hub == [clients |-> clients, sockets |-> sockets]

\* this.clients.get(clientId): the entry's place in the Map, 0 if there is none
Get(cl, clientId) ==
  IF \E i \in 1..Len(cl) : cl[i].clientId = clientId
  THEN CHOOSE i \in 1..Len(cl) : cl[i].clientId = clientId
  ELSE 0

\* this.clients.delete(clientId)
Delete(cl, clientId) == SelectSeq(cl, LAMBDA client : client.clientId # clientId)

\* the keys of this.clients, in iteration order
Keys(cl) == [i \in 1..Len(cl) |-> cl[i].clientId]

\* sendToClient whose failed send leaves the client in the Map
SendToClientKeeping(hub, clientId, message, throws) ==
  IF Get(hub.clients, clientId) = 0
     \/ hub.sockets[clientId].readyState # "OPEN"
  THEN hub
  ELSE IF throws THEN hub
  ELSE [hub EXCEPT !.sockets[clientId].sent = Append(@, message)]

\* sendToClient that puts the message in front of what the socket was sent
SendToClientInFront(hub, clientId, message, throws) ==
  IF Get(hub.clients, clientId) = 0
     \/ hub.sockets[clientId].readyState # "OPEN"
  THEN hub
  ELSE IF throws THEN [hub EXCEPT !.clients = Delete(@, clientId)]
  ELSE [hub EXCEPT !.sockets[clientId].sent = << message >> \o @]

\* sendToClient(clientId, message); throws: client.ws.send throws
SendToClient(hub, clientId, message, throws) ==
  IF Get(hub.clients, clientId) = 0
     \/ hub.sockets[clientId].readyState # "OPEN"
  THEN hub
  ELSE IF throws THEN [hub EXCEPT !.clients = Delete(@, clientId)]
  ELSE [hub EXCEPT !.sockets[clientId].sent = Append(@, message)]

\* the loop of broadcast(message) over the remaining keys
RECURSIVE BroadcastLoop(_, _, _, _)
BroadcastLoop(hub, keys, message, failing) ==
  IF keys = << >> THEN hub
  ELSE BroadcastLoop(SendToClient(hub, Head(keys), message,
                                  Head(keys) \in failing),
                     Tail(keys), message, failing)

\* broadcast(message); failing: the clients whose send throws
BroadcastMessage(hub, message, failing) ==
  BroadcastLoop(hub, Keys(hub.clients), message, failing)

\* the broadcasts of events[from..to], one after the other
RECURSIVE BroadcastEvents(_, _, _, _, _)
BroadcastEvents(hub, evs, from, to, failing) ==
  IF from > to THEN hub
  ELSE BroadcastEvents(
         BroadcastMessage(hub, Message(evs[from].type, from, NoPlayer), failing),
         evs, from + 1, to, failing)

\* the clients that are in the Map with an open socket
Attached == {k \in ClientIds : Get(clients, k) # 0 /\ sockets[k].readyState = "OPEN"}

\* the rest of handleCashoutRequest once its cashOut call is over: the reply
AwaitedDone(hub, cs) ==
  {w \in ClientIds \X (1..Len(cs)) :
     w[2] \in hub.sockets[w[1]].awaits /\ cs[w[2]].pc = "done"}

CashoutReply(hub, cs, failing) ==
  IF AwaitedDone(hub, cs) = {} THEN hub
  ELSE LET w == CHOOSE w \in AwaitedDone(hub, cs) : TRUE
           type == IF cs[w[2]].error = "none" THEN "cashout_success"
                   ELSE "cashout_error"
           over == [hub EXCEPT !.sockets[w[1]].awaits = @ \ {w[2]}]
       IN  SendToClient(over, w[1], Message(type, 0, cs[w[2]].playerId),
                        w[1] \in failing)

\* what a step of the engine or of a request makes the hub do: every event
\* the step has added to events goes through broadcast, in order, and a
\* cashOut call that is over is answered
Deliver ==
  \E failing \in SUBSET Attached :
    LET sent == BroadcastEvents(Hub, events', Len(events) + 1, Len(events'),
                                failing)
        hub == CashoutReply(sent, calls', failing)
    IN  /\ (Len(events') = Len(events) /\ AwaitedDone(Hub, calls') = {})
              => failing = {}
        /\ clients' = hub.clients
        /\ sockets' = hub.sockets
        /\ UNCHANGED << pingInterval, server, rateLimiter >>

\* wss.on('connection'): a new client id, the Map entry, the welcome message
Connection ==
  \E clientId \in ClientIds, throws \in BOOLEAN :
    LET entry == [clientId |-> clientId, playerId |-> NoPlayer, lastPing |-> now]
        hub == SendToClient(
                 [clients |-> Append(clients, entry),
                  sockets |-> [sockets EXCEPT ![clientId] = Socket("OPEN")]],
                 clientId, Message("connection_established", 0, NoPlayer), throws)
    IN  /\ server.phase = "running"
        /\ sockets[clientId].readyState = "NONE"
        /\ \A k \in ClientIds : k < clientId => sockets[k].readyState # "NONE"
        /\ clients' = hub.clients
        /\ sockets' = hub.sockets
        /\ UNCHANGED << engineVars, timerVars, taskVars, calls, storeVars,
                        events, pingInterval, server, rateLimiter >>

\* the peer starts to close, or the connection breaks: the socket is no longer
\* open, its 'close' event has not fired yet
SocketClosing ==
  \E clientId \in ClientIds :
    /\ sockets[clientId].readyState = "OPEN"
    /\ sockets' = [sockets EXCEPT ![clientId].readyState = "CLOSING"]
    /\ UNCHANGED << engineVars, timerVars, taskVars, calls, storeVars, events,
                    clients, pingInterval, server, rateLimiter >>

\* ws.on('close'): this.clients.delete(clientId)
SocketClose ==
  \E clientId \in ClientIds :
    /\ sockets[clientId].readyState = "CLOSING"
    /\ sockets' = [sockets EXCEPT ![clientId].readyState = "CLOSED"]
    /\ clients' = Delete(clients, clientId)
    /\ UNCHANGED << engineVars, timerVars, taskVars, calls, storeVars, events,
                    pingInterval, server, rateLimiter >>

\* handleMessage / handlePlayerRegistration for {type: 'register_player',
\* playerId}
HandlePlayerRegistration ==
  \E clientId \in ClientIds, playerId \in PayloadIds, throws \in BOOLEAN :
    LET i == Get(clients, clientId)
        got == [sockets EXCEPT ![clientId].inbound = @ + 1]
        bound == [clients |-> [clients EXCEPT ![i].playerId = playerId],
                  sockets |-> got]
        hub == IF playerId = NoPlayer
               THEN SendToClient([Hub EXCEPT !.sockets = got], clientId,
                                 Message("registration_error", 0, NoPlayer),
                                 throws)
               ELSE SendToClient(bound, clientId,
                                 Message("registration_success", 0, playerId),
                                 throws)
    IN  /\ sockets[clientId].readyState = "OPEN"
        /\ sockets[clientId].inbound < MaxInbound
        /\ i # 0
        /\ clients' = hub.clients
        /\ sockets' = hub.sockets
        /\ UNCHANGED << engineVars, timerVars, taskVars, calls, storeVars,
                        events, pingInterval, server, rateLimiter >>

\* handleCashoutRequest that prefers the playerId of the message to the
\* bound one
HandleCashoutRequestPayloadFirst ==
  \E clientId \in ClientIds, dataId \in PayloadIds, throws \in BOOLEAN :
    LET i == Get(clients, clientId)
        playerId == IF dataId # NoPlayer THEN dataId
                    ELSE clients[i].playerId
        c == Len(calls')
        got == [Hub EXCEPT !.sockets[clientId].inbound = @ + 1]
        waiting == [got EXCEPT !.sockets[clientId].awaits = @ \cup {c}]
        hub == IF calls'[c].pc = "done"
               THEN SendToClient(got, clientId,
                                 Message("cashout_error", 0, playerId), throws)
               ELSE waiting
        refused == SendToClient(got, clientId,
                                Message("cashout_error", 0, NoPlayer), throws)
    IN  /\ sockets[clientId].readyState = "OPEN"
        /\ sockets[clientId].inbound < MaxInbound
        /\ i # 0
        /\ IF playerId = NoPlayer
           THEN /\ clients' = refused.clients
                /\ sockets' = refused.sockets
                /\ UNCHANGED << engineVars, timerVars, taskVars, calls,
                                storeVars, events >>
           ELSE /\ CashOut
                /\ calls'[c].playerId = playerId
                /\ clients' = hub.clients
                /\ sockets' = hub.sockets
        /\ UNCHANGED << pingInterval, server, rateLimiter >>

\* handleMessage / handleCashoutRequest for {type: 'cashout_request',
\* playerId}, up to the first await inside cashOut or to its immediate throw
HandleCashoutRequest ==
  \E clientId \in ClientIds, dataId \in PayloadIds, throws \in BOOLEAN :
    LET i == Get(clients, clientId)
        playerId == IF clients[i].playerId # NoPlayer THEN clients[i].playerId
                    ELSE dataId
        c == Len(calls')
        got == [Hub EXCEPT !.sockets[clientId].inbound = @ + 1]
        waiting == [got EXCEPT !.sockets[clientId].awaits = @ \cup {c}]
        hub == IF calls'[c].pc = "done"
               THEN SendToClient(got, clientId,
                                 Message("cashout_error", 0, playerId), throws)
               ELSE waiting
        refused == SendToClient(got, clientId,
                                Message("cashout_error", 0, NoPlayer), throws)
    IN  /\ sockets[clientId].readyState = "OPEN"
        /\ sockets[clientId].inbound < MaxInbound
        /\ i # 0
        /\ IF playerId = NoPlayer
           THEN /\ clients' = refused.clients
                /\ sockets' = refused.sockets
                /\ UNCHANGED << engineVars, timerVars, taskVars, calls,
                                storeVars, events >>
           ELSE /\ CashOut
                /\ calls'[c].playerId = playerId
                /\ clients' = hub.clients
                /\ sockets' = hub.sockets
        /\ UNCHANGED << pingInterval, server, rateLimiter >>

\* the hub's requests while the first round takes bets
NextHub ==
  \/ StartGameLoop /\ Deliver
  \/ StartNewRoundSaved /\ Deliver
  \/ Connection
  \/ HandlePlayerRegistration
  \/ HandleCashoutRequest

SpecHub == Init /\ [][NextHub]_vars

\* the hub is observed for the first round and the start of the second
BroadcastHorizon == RoundSteps + 1

NextBroadcast ==
  \/ StartGameLoop /\ Deliver
  \/ StartNewRound /\ Deliver
  \/ StartNewRoundSaved /\ Deliver
  \/ StartMultiplier /\ Deliver
  \/ UpdateMultiplier /\ Deliver
  \/ CrashGameSaved /\ Deliver
  \/ CrashGameDone /\ Deliver
  \/ Advance /\ now < BroadcastHorizon /\ UNCHANGED hubVars
  \/ Connection
  \/ SocketClosing
  \/ SocketClose

SpecBroadcast == Init /\ [][NextBroadcast]_vars

\* ------------------------------------------------ the sweep (pingClients)
\* the sweep is followed over the staleness limit and two more periods
ReapHorizon == StaleSteps + 2 * PingSteps

\* a staleness test that allows one more period
IsStaleLate(client, instant) ==
  instant - client.lastPing > StaleSteps + PingSteps

\* timeSinceLastPing > 120000
IsStale(client, instant) == instant - client.lastPing > StaleSteps

\* pingClients(), the callback of the ping interval; throwing: the clients
\* whose ws.ping() throws
PingClients ==
  \E throwing \in SUBSET Attached :
    LET pinged == {k \in Attached \ throwing :
                     ~IsStale(clients[Get(clients, k)], now)}
    IN  /\ now = pingInterval
        /\ pingInterval' = now + PingSteps
        /\ clients' = SelectSeq(clients,
                                LAMBDA client : client.clientId \in pinged)
        /\ sockets' = [k \in ClientIds |->
                         IF k \in pinged
                         THEN [sockets[k] EXCEPT !.pings = @ + 1]
                         ELSE sockets[k]]
        /\ UNCHANGED << engineVars, timerVars, taskVars, calls, storeVars,
                        events, server, rateLimiter >>

\* ws.on('pong'): the observer answers a ping frame
Pong ==
  \E clientId \in ClientIds :
    LET i == Get(clients, clientId)
    IN  /\ sockets[clientId].readyState = "OPEN"
        /\ sockets[clientId].pings > 0
        /\ sockets' = [sockets EXCEPT ![clientId].pings = @ - 1]
        /\ clients' = IF i = 0 THEN clients
                      ELSE [clients EXCEPT ![i].lastPing = now]
        /\ UNCHANGED << engineVars, timerVars, taskVars, calls, storeVars,
                        events, pingInterval, server, rateLimiter >>

\* handleMessage for a client that is not in the Map: return
HandleMessageNoClient ==
  \E clientId \in ClientIds :
    /\ sockets[clientId].readyState = "OPEN"
    /\ sockets[clientId].inbound < MaxInbound
    /\ Get(clients, clientId) = 0
    /\ sockets' = [sockets EXCEPT ![clientId].inbound = @ + 1]
    /\ UNCHANGED << engineVars, timerVars, taskVars, calls, storeVars, events,
                    clients, pingInterval, server, rateLimiter >>

\* the messages of POST /broadcast that a socket was sent
Posts(k) == SelectSeq(sockets[k].sent, LAMBDA message : message.type = "post")

\* POST /broadcast: webSocketService.broadcast(message)
PostBroadcast ==
  \E failing \in SUBSET Attached :
    LET hub == BroadcastMessage(Hub, Message("post", 0, NoPlayer), failing)
    IN  /\ Attached # {}
        /\ \A k \in ClientIds : Len(Posts(k)) < MaxPosts
        /\ clients' = hub.clients
        /\ sockets' = hub.sockets
        /\ UNCHANGED << engineVars, timerVars, taskVars, calls, storeVars,
                        events, pingInterval, server, rateLimiter >>

\* time passes, up to the next sweep at most
ReapAdvance ==
  /\ now < pingInterval
  /\ now < ReapHorizon
  /\ now' = IF now + ReapStride < pingInterval THEN now + ReapStride
            ELSE pingInterval
  /\ UNCHANGED << engineVars, gameInterval, lastTick, startTimers, taskVars,
                  calls, storeVars, events, hubVars >>

NextReap ==
  \/ Connection
  \/ SocketClosing
  \/ SocketClose
  \/ PingClients
  \/ Pong
  \/ HandleMessageNoClient
  \/ PostBroadcast
  \/ ReapAdvance

SpecReap == Init /\ [][NextReap]_vars

\* ------------------------------------------------ shutdown (gracefulShutdown)
\* the process has not exited
Alive == server.phase \notin {"exit0", "exit1"}

\* closeAllConnections(): ws.close(1000) for every client of the Map, then
\* this.clients.clear()
CloseAllConnections(hub) ==
  [clients |-> << >>,
   sockets |-> [k \in ClientIds |->
                  IF Get(hub.clients, k) # 0
                     /\ hub.sockets[k].readyState = "OPEN"
                  THEN [hub.sockets[k] EXCEPT !.readyState = "CLOSING",
                                              !.code = 1000]
                  ELSE hub.sockets[k]]]

\* stopGameLoop(): both intervals cleared, isGameActive false
StopGameLoop ==
  /\ gameInterval' = Null
  /\ multiplierInterval' = FALSE
  /\ isGameActive' = FALSE
  /\ UNCHANGED << currentRound, roundCounter, currentMultiplier,
                  gameStartTime, rounds, now, lastTick, startTimers, taskVars,
                  calls, storeVars, events >>

\* shutdown(signal): server.close(callback) and the 10 s timer
Shutdown ==
  /\ server.phase = "running"
  /\ gameInterval # Null
  /\ server' = [phase |-> "closing", exitAt |-> now + ForceExitSteps]
  /\ UNCHANGED << engineVars, timerVars, taskVars, calls, storeVars, events,
                  clients, sockets, pingInterval, rateLimiter >>

\* the callback of server.close, called when no connection is left:
\* stopGameLoop, closeAllConnections, mongoose.connection.close(callback)
ServerClosed ==
  LET hub == CloseAllConnections(Hub)
  IN  /\ server.phase = "closing"
      /\ \A k \in ClientIds : sockets[k].readyState \in {"NONE", "CLOSED"}
      /\ StopGameLoop
      /\ clients' = hub.clients
      /\ sockets' = hub.sockets
      /\ server' = [server EXCEPT !.phase = "stopped"]
      /\ UNCHANGED << pingInterval, rateLimiter >>

\* the callback of mongoose.connection.close: process.exit(0)
DatabaseClosed ==
  /\ server.phase = "stopped"
  /\ server' = [server EXCEPT !.phase = "exit0"]
  /\ UNCHANGED << engineVars, timerVars, taskVars, calls, storeVars, events,
                  clients, sockets, pingInterval, rateLimiter >>

\* the callback of the 10 s timer: process.exit(1)
ForceExit ==
  /\ server.phase \in {"closing", "stopped"}
  /\ now >= server.exitAt
  /\ server' = [server EXCEPT !.phase = "exit1"]
  /\ UNCHANGED << engineVars, timerVars, taskVars, calls, storeVars, events,
                  clients, sockets, pingInterval, rateLimiter >>

\* the shutdown is followed until the 10 s timer of an early signal has fired
ShutdownHorizon == ForceExitSteps + 2

\* a callback of the shutdown is ready to run: that of server.close when the
\* last connection has ended, that of mongoose.connection.close
CallbackDue ==
  \/ server.phase = "stopped"
  \/ /\ server.phase = "closing"
     /\ \A k \in ClientIds : sockets[k].readyState \in {"NONE", "CLOSED"}

\* time may pass: the 10 s timer is not overdue and no callback is ready
ExitNotDue ==
  /\ now < ShutdownHorizon
  /\ server.exitAt = Null \/ now < server.exitAt
  /\ ~CallbackDue

\* fewer than MaxShutdownClients connections have been made
FewClients ==
  Cardinality({k \in ClientIds : sockets[k].readyState # "NONE"})
    < MaxShutdownClients

\* no send of the step has failed
AllSent == \A k \in ClientIds : Get(clients, k) # 0 => Get(clients', k) # 0

NextShutdown ==
  \/ Alive /\ StartGameLoop /\ Deliver /\ AllSent
  \/ Alive /\ StartNewRound /\ Deliver /\ AllSent
  \/ Alive /\ StartNewRoundSaved /\ Deliver /\ AllSent
  \/ Alive /\ StartMultiplier /\ Deliver /\ AllSent
  \/ Alive /\ UpdateMultiplier /\ Deliver /\ AllSent
  \/ Alive /\ CrashGameSaved /\ Deliver /\ AllSent
  \/ Alive /\ CrashGameDone /\ Deliver /\ AllSent
  \/ Alive /\ ExitNotDue /\ Advance /\ UNCHANGED hubVars
  \/ Connection /\ FewClients /\ AllSent
  \/ Alive /\ SocketClosing
  \/ Alive /\ SocketClose
  \/ Shutdown
  \/ ServerClosed
  \/ DatabaseClosed
  \/ ForceExit

SpecShutdown == Init /\ [][NextShutdown]_vars

\* ------------------------------------------------ POST verify (verifyRound)
\* the seeds a request may give: the seeds of the rounds and the strings that
\* differ from one of them in one hexadecimal digit; << >> is a missing seed
VerifySeeds ==
  {str \in {<< a, b >> : a \in 0..15, b \in 0..15} :
     \E s \in Seeds : str[1] = SeedStr(s)[1] \/ str[2] = SeedStr(s)[2]}

\* GameRound.findOne({ roundId }): the round has been saved
Persisted(roundId) ==
  /\ roundId \in 1..Len(rounds)
  /\ ~(startTask.pc = "save" /\ startTask.roundId = roundId)

\* the reply of verifyRound: 400 for a missing field, 404 for an unknown
\* round, else isValid and hashMatches computed from the seed of the request
\* and the round number taken from the round id
VerifyReply(roundId, seed, crashPoint) ==
  LET request == [kind |-> "verifyRound", pc |-> "done", roundId |-> roundId,
                  seed |-> seed, crashPoint |-> crashPoint, status |-> 200,
                  isValid |-> FALSE, hashMatches |-> FALSE]
      calculated == CrashPointOf(seed, roundId)
      diff == IF calculated >= crashPoint THEN calculated - crashPoint
              ELSE crashPoint - calculated
  IN  IF seed = << >> \/ crashPoint = 0
      THEN [request EXCEPT !.status = 400]
      ELSE IF ~Persisted(roundId)
      THEN [request EXCEPT !.status = 404]
      ELSE [request EXCEPT
              !.isValid = diff < 1,
              !.hashMatches = Sha256(seed \o toString(roundId))
                                = rounds[roundId].hash]

\* POST verify: GameController.verifyRound
VerifyRound ==
  \E roundId \in 1..(MaxRounds + 1), seed \in VerifySeeds \cup {<< >>},
     given \in BOOLEAN :
    LET crashPoint == IF given /\ Persisted(roundId)
                      THEN rounds[roundId].crashPoint ELSE 0
    IN  /\ Len(calls) < MaxVerifyCalls
        /\ calls' = Append(calls, VerifyReply(roundId, seed, crashPoint))
        /\ UNCHANGED << engineVars, timerVars, taskVars, storeVars, events,
                        hubVars >>

NextVerify ==
  \/ StartGameLoop /\ UNCHANGED hubVars
  \/ StartNewRound /\ UNCHANGED hubVars
  \/ StartNewRoundSaved /\ UNCHANGED hubVars
  \/ StartMultiplier /\ UNCHANGED hubVars
  \/ UpdateMultiplier /\ UNCHANGED hubVars
  \/ CrashGameSaved /\ UNCHANGED hubVars
  \/ CrashGameDone /\ UNCHANGED hubVars
  \/ Advance /\ UNCHANGED hubVars
  \/ VerifyRound

SpecVerify == Init /\ [][NextVerify]_vars

\* ------------------------------------------------ repeated cashOut
\* one placeBet, then cashOut requests, beside the game loop
NextPayout ==
  \/ StartGameLoop /\ UNCHANGED hubVars
  \/ StartNewRound /\ UNCHANGED hubVars
  \/ StartNewRoundSaved /\ UNCHANGED hubVars
  \/ StartMultiplier /\ UNCHANGED hubVars
  \/ UpdateMultiplier /\ UNCHANGED hubVars
  \/ CrashGameSaved /\ UNCHANGED hubVars
  \/ ProcessLostBet /\ UNCHANGED hubVars
  \/ CrashGameDone /\ UNCHANGED hubVars
  \/ PlaceBet /\ calls = << >> /\ UNCHANGED hubVars
  \/ PlaceBetPrice /\ UNCHANGED hubVars
  \/ PlaceBetFound /\ UNCHANGED hubVars
  \/ PlaceBetSaved /\ UNCHANGED hubVars
  \/ PlaceBetRoundSaved /\ UNCHANGED hubVars
  \/ PlaceBetTxSaved /\ UNCHANGED hubVars
  \/ CashOutUpTo(MaxPayoutCalls) /\ calls # << >> /\ UNCHANGED hubVars
  \/ CashOutRoundSaved /\ UNCHANGED hubVars
  \/ CashOutFound /\ UNCHANGED hubVars
  \/ CashOutSaved /\ UNCHANGED hubVars
  \/ CashOutTxSaved /\ UNCHANGED hubVars
  \/ Advance /\ UNCHANGED hubVars

SpecPayout == Init /\ [][NextPayout]_vars

\* ------------------------------------------------ debits of one wallet
\* the new request debits the bitcoin balance of bob, unless it is turned
\* away at once
OneWallet ==
  /\ calls'[Len(calls')].playerId = "bob"
  /\ IF calls'[Len(calls')].pc = "done" THEN TRUE
     ELSE calls'[Len(calls')].cryptocurrency = "bitcoin"

\* placeBet, withdrawCrypto and transferCrypto requests in the betting
\* window of the first round
NextFunds ==
  \/ StartGameLoop /\ UNCHANGED hubVars
  \/ StartNewRoundSaved /\ UNCHANGED hubVars
  \/ PlaceBet /\ OneWallet /\ UNCHANGED hubVars
  \/ PlaceBetPrice /\ UNCHANGED hubVars
  \/ PlaceBetFound /\ UNCHANGED hubVars
  \/ PlaceBetSaved /\ UNCHANGED hubVars
  \/ PlaceBetRoundSaved /\ UNCHANGED hubVars
  \/ PlaceBetTxSaved /\ UNCHANGED hubVars
  \/ WithdrawCrypto /\ OneWallet /\ UNCHANGED hubVars
  \/ WithdrawFound /\ UNCHANGED hubVars
  \/ WalletSaved /\ UNCHANGED hubVars
  \/ WalletPrice /\ UNCHANGED hubVars
  \/ WalletTxSaved /\ UNCHANGED hubVars
  \/ TransferCrypto /\ OneWallet /\ UNCHANGED hubVars
  \/ TransferFromFound /\ UNCHANGED hubVars
  \/ TransferToFound /\ UNCHANGED hubVars
  \/ TransferFromSaved /\ UNCHANGED hubVars
  \/ TransferToSaved /\ UNCHANGED hubVars
  \/ TransferPrice /\ UNCHANGED hubVars
  \/ TransferFromTxSaved /\ UNCHANGED hubVars
  \/ TransferToTxSaved /\ UNCHANGED hubVars

SpecFunds == Init /\ [][NextFunds]_vars

\* ------------------------------------------------ the state query
\* getCurrentGameState(): the snapshot the HTTP state query and get_game_state
\* hand out
getCurrentGameState ==
  IF currentRound = 0
  THEN [status |-> "no_game", message |-> "No active game round"]
  ELSE [roundId |-> rounds[currentRound].roundId,
        status |-> rounds[currentRound].status,
        multiplier |-> currentMultiplier,
        isActive |-> isGameActive,
        bets |-> Len(rounds[currentRound].bets),
        hash |-> rounds[currentRound].hash]

\* ------------------------------------------------ stopGameLoop
\* stopGameLoop has been called: the round interval is cleared
Stopped == roundCounter > 0 /\ gameInterval = Null

\* stopGameLoop() on the running engine
Stop ==
  /\ gameInterval # Null
  /\ StopGameLoop

\* time passes on the stopped engine
AdvanceStopped ==
  /\ Stopped
  /\ now < Horizon
  /\ ~TimerDue
  /\ StoreQuiet
  /\ now' = now + 1
  /\ UNCHANGED << engineVars, gameInterval, lastTick, startTimers, taskVars,
                  calls, storeVars, events >>

\* the engine and its requests, with one call of stopGameLoop
NextStop ==
  \/ StartGameLoop /\ UNCHANGED hubVars
  \/ StartNewRound /\ UNCHANGED hubVars
  \/ StartNewRoundSaved /\ UNCHANGED hubVars
  \/ StartMultiplier /\ UNCHANGED hubVars
  \/ UpdateMultiplier /\ UNCHANGED hubVars
  \/ CrashGameSaved /\ UNCHANGED hubVars
  \/ ProcessLostBet /\ UNCHANGED hubVars
  \/ CrashGameDone /\ UNCHANGED hubVars
  \/ PlaceBet /\ UNCHANGED hubVars
  \/ PlaceBetPrice /\ UNCHANGED hubVars
  \/ PlaceBetFound /\ UNCHANGED hubVars
  \/ PlaceBetSaved /\ UNCHANGED hubVars
  \/ PlaceBetRoundSaved /\ UNCHANGED hubVars
  \/ PlaceBetTxSaved /\ UNCHANGED hubVars
  \/ CashOut /\ UNCHANGED hubVars
  \/ CashOutRoundSaved /\ UNCHANGED hubVars
  \/ CashOutFound /\ UNCHANGED hubVars
  \/ CashOutSaved /\ UNCHANGED hubVars
  \/ CashOutTxSaved /\ UNCHANGED hubVars
  \/ Stop /\ UNCHANGED hubVars
  \/ Advance /\ UNCHANGED hubVars
  \/ AdvanceStopped /\ UNCHANGED hubVars

SpecStop == Init /\ [][NextStop]_vars

\* ------------------------------------------------ the rate limiter
\* the predefined limiters
Limiters ==
  {[name |-> "general", windowMs |-> 60000, maxRequests |-> 100],
   [name |-> "strict", windowMs |-> 60000, maxRequests |-> 20],
   [name |-> "gameActions", windowMs |-> 10000, maxRequests |-> 10],
   [name |-> "walletOperations", windowMs |-> 60000, maxRequests |-> 30],
   [name |-> "cryptoPrices", windowMs |-> 10000, maxRequests |-> 50]}

\* the requests of a client are followed over three strides, up to the first
\* cleanup
RateHorizon == 3 * RateStride

\* the middleware of createLimiter for one request at instant: the log of the
\* key is cut to the limiter's window and stored, and the request is refused
\* if the log is full, else logged and passed on
Limit(log, limiter, instant) ==
  LET windowStart == instant - (limiter.windowMs \div GridMs)
      validRequests == SelectSeq(log, LAMBDA timestamp : timestamp > windowStart)
  IN  IF Len(validRequests) >= limiter.maxRequests
      THEN [log |-> validRequests, admitted |-> 0]
      ELSE [log |-> Append(validRequests, instant), admitted |-> 1]

\* n requests of one client to one limiter at the same instant
RECURSIVE LimitAll(_, _, _, _)
LimitAll(log, limiter, instant, n) ==
  IF n = 0 THEN [log |-> log, admitted |-> 0]
  ELSE LET first == Limit(log, limiter, instant)
           rest == LimitAll(first.log, limiter, instant, n - 1)
       IN  [log |-> rest.log, admitted |-> first.admitted + rest.admitted]

\* a client sends one request, or a burst of them, to an endpoint guarded by
\* a limiter
Requests ==
  \E key \in Ips, limiter \in Limiters, n \in {1, MaxBurst} :
    LET outcome == LimitAll(rateLimiter.requests[key], limiter, now, n)
    IN  /\ Len(calls) < MaxBursts
        /\ rateLimiter' = [rateLimiter EXCEPT !.requests[key] = outcome.log]
        /\ calls' = Append(calls, [kind |-> "requests", pc |-> "done",
                                   key |-> key, limiter |-> limiter.name,
                                   at |-> now, n |-> n,
                                   admitted |-> outcome.admitted])
        /\ UNCHANGED << engineVars, timerVars, taskVars, storeVars, events,
                        clients, sockets, pingInterval, server >>

\* cleanup(), the callback of the cleanup interval
Cleanup ==
  /\ now = rateLimiter.cleanupInterval
  /\ rateLimiter' =
       [requests |-> [key \in Ips |->
                        SelectSeq(rateLimiter.requests[key],
                                  LAMBDA timestamp :
                                    now - timestamp < MaxAgeMs \div GridMs)],
        cleanupInterval |-> now + CleanupSteps]
  /\ UNCHANGED << engineVars, timerVars, taskVars, calls, storeVars, events,
                  clients, sockets, pingInterval, server >>

\* time passes, up to the next cleanup at most
RateAdvance ==
  /\ now < rateLimiter.cleanupInterval
  /\ now < RateHorizon
  /\ now' = Min(now + RateStride, rateLimiter.cleanupInterval)
  /\ UNCHANGED << engineVars, gameInterval, lastTick, startTimers, taskVars,
                  calls, storeVars, events, hubVars >>

NextRate ==
  \/ Requests
  \/ Cleanup
  \/ RateAdvance

SpecRate == Init /\ [][NextRate]_vars

\* ---------------------------------------------------------------- properties
EventsOf(type) == {i \in 1..Len(events) : events[i].type = type}

\* the events a step broadcasts
Broadcast == {i \in 1..Len(events') : i > Len(events)}

\* C1 (state part): every round stores generateHash and generateCrashPoint of
\* its own seed and round number, and the seed of a game_crashed event hashes
\* to the hash of the round_started event of the same round id
CommitHolds ==
  /\ \A n \in 1..Len(rounds) :
       /\ rounds[n].roundId = n
       /\ rounds[n].hash = generateHash(rounds[n].seed, n)
       /\ rounds[n].crashPoint = generateCrashPoint(rounds[n].seed, n)
  /\ \A i \in EventsOf("round_started"), j \in EventsOf("game_crashed") :
       events[i].roundId = events[j].roundId
         => generateHash(events[j].seed, events[j].roundId) = events[i].hash

\* C1 (step part): no step changes the seed, hash or crashPoint of a round
CommitKept ==
  \A n \in 1..Len(rounds) :
    /\ Len(rounds') >= Len(rounds)
    /\ rounds'[n].seed = rounds[n].seed
    /\ rounds'[n].hash = rounds[n].hash
    /\ rounds'[n].crashPoint = rounds[n].crashPoint

\* C1: commit integrity. The stored hash and crashPoint of every round are
\* those of its own seed and round number, they and the seed never change
\* after creation, and the seed revealed by game_crashed hashes to the hash
\* published by round_started for the same round id.
C1_CommitIntegrity == []CommitHolds /\ [][CommitKept]_vars

\* C1 witness: a round was announced and, later, its seed was revealed
C1_Witness ==
  \E i \in EventsOf("round_started"), j \in EventsOf("game_crashed") :
    /\ events[i].roundId = events[j].roundId
    /\ i < j
    /\ rounds[events[j].roundId].status = "completed"

\* C2: seed secrecy. A step that broadcasts game_crashed carries the round id,
\* seed and crash point of a round that has crashed: its status is 'crashed'
\* when crashGame reaches the broadcast, never 'waiting'.
C2_SeedSecrecy ==
  [][\A i \in Broadcast :
       events'[i].type = "game_crashed"
         => rounds[events'[i].roundId].status = "crashed"]_vars

\* C3: a step that appends a wager to a round finds the round in 'waiting'
C3_NoLateWager ==
  [][\A n \in 1..Len(rounds) :
       Len(rounds'[n].bets) > Len(rounds[n].bets)
         => rounds[n].status = "waiting"]_vars

\* C4: no round's bets list holds two wagers of one player that are both
\* not cashed out
C4_OneOpenWager ==
  \A n \in 1..Len(rounds) :
    \A i, j \in 1..Len(rounds[n].bets) :
      ~(/\ i # j
        /\ rounds[n].bets[i].playerId = rounds[n].bets[j].playerId
        /\ ~rounds[n].bets[i].cashedOut
        /\ ~rounds[n].bets[j].cashedOut)

\* the bound of C5 for one wager of a round
CashoutInRange(r, bet) ==
  /\ bet.cashoutMultiplier # Null
  /\ MultScale <= bet.cashoutMultiplier
  /\ bet.cashoutMultiplier < r.crashPoint * 100
  /\ bet.cashoutAmount = Times(bet.cryptoAmount, bet.cashoutMultiplier)

\* C5: every wager marked cashedOut has 1.00 <= cashoutMultiplier < crashPoint
\* of its round and cashoutAmount = cryptoAmount x cashoutMultiplier
C5_CashoutBound ==
  \A n \in 1..Len(rounds) :
    \A i \in 1..Len(rounds[n].bets) :
      rounds[n].bets[i].cashedOut => CashoutInRange(rounds[n], rounds[n].bets[i])

\* the balance a request's write stores, as a change of the balance in the store
Applies(call, playerId, delta) ==
  wallet'[playerId][call.cryptocurrency]
    = wallet[playerId][call.cryptocurrency] + delta

\* C6: no lost update. Every acknowledged balance write of depositCrypto,
\* withdrawCrypto, transferCrypto, placeBet and cashOut changes the stored
\* balance by the amount of its own operation, whatever other operations on
\* the same (player, asset) ran since it read the balance.
C6_NoLostUpdate ==
  [][\A c \in 1..Len(calls) :
       LET call == calls[c]
           wrote(pc) == call.pc = pc /\ calls'[c].pc # pc
                        /\ calls'[c].error = "none"
       IN  /\ (call.kind = "deposit" /\ wrote("save"))
                => Applies(call, call.playerId, call.cryptoAmount)
           /\ (call.kind \in {"withdraw", "placeBet"} /\ wrote("save"))
                => Applies(call, call.playerId, 0 - call.cryptoAmount)
           /\ (call.kind = "cashOut" /\ wrote("save"))
                => Applies(call, call.playerId,
                           Times(call.cryptoAmount, call.multiplier))
           /\ (call.kind = "transfer" /\ wrote("saveFrom"))
                => Applies(call, call.playerId, 0 - call.cryptoAmount)
           /\ (call.kind = "transfer" /\ wrote("saveTo"))
                => Applies(call, call.toPlayerId, call.cryptoAmount)]_vars

RECURSIVE LedgerSum(_, _, _)
\* credits (deposit, cashout) minus debits (bet, withdrawal) of a player in
\* an asset over a transaction log
LedgerSum(log, playerId, cryptocurrency) ==
  IF log = << >> THEN 0
  ELSE LET tx == Head(log)
           mine == tx.playerId = playerId /\ tx.cryptocurrency = cryptocurrency
           signed == IF ~mine THEN 0
                     ELSE IF tx.transactionType \in {"deposit", "cashout"}
                     THEN tx.cryptoAmount
                     ELSE 0 - tx.cryptoAmount
       IN  signed + LedgerSum(Tail(log), playerId, cryptocurrency)

\* no request is in progress
Quiescent == \A c \in 1..Len(calls) : calls[c].pc = "done"

\* C7: ledger conservation. Whenever no operation is in progress, the balance
\* of every player in every asset is the sum of the player's credits minus
\* the sum of the player's debits in the transaction log.
C7_LedgerConservation ==
  Quiescent =>
    \A p \in players, a \in Assets : wallet[p][a] = LedgerSum(txLog, p, a)

\* C8: a transfer never shows the sender debited without the receiver
\* credited: no step of transferCrypto changes the sum of the balances of the
\* two players in the asset.
C8_TransferAtomic ==
  [][\A c \in 1..Len(calls) :
       LET call == calls[c]
       IN  (call.kind = "transfer" /\ call.pc # "done" /\ calls'[c] # call)
             => wallet'[call.playerId][call.cryptocurrency]
                  + wallet'[call.toPlayerId][call.cryptocurrency]
                = wallet[call.playerId][call.cryptocurrency]
                  + wallet[call.toPlayerId][call.cryptocurrency]]_vars

\* what a rejected placeBet leaves alone
NoEffect == UNCHANGED << wallet, rounds, txLog, events >>

\* C9: insufficient balance. A placeBet whose stake exceeds the balance it
\* reads is rejected with 'Insufficient balance', and neither that step nor
\* any earlier step of the call appends a wager, records a transaction,
\* broadcasts an event or changes a balance; a rejected call does nothing more.
C9_InsufficientBalance ==
  [][\A c \in 1..Len(calls) :
       LET call == calls[c]
       IN  (call.kind = "placeBet" /\ calls'[c] # call) =>
             /\ call.pc \in {"price", "find"} => NoEffect
             /\ call.pc # "done"
             /\ (/\ call.pc = "find"
                 /\ call.playerId \in players
                 /\ wallet[call.playerId][call.cryptocurrency] < call.cryptoAmount)
                  => /\ calls'[c].pc = "done"
                     /\ calls'[c].error = "Insufficient balance"
             /\ calls'[c].error = "Insufficient balance"
                  => /\ call.pc = "find"
                     /\ wallet[call.playerId][call.cryptocurrency]
                          < call.cryptoAmount]_vars

\* C9 witness: a bet larger than the balance was refused, and the player has
\* no wager and no transaction
C9_Witness ==
  \E c \in 1..Len(calls) :
    /\ calls[c].kind = "placeBet"
    /\ calls[c].pc = "done"
    /\ calls[c].error = "Insufficient balance"
    /\ \A n \in 1..Len(rounds) : \A i \in 1..Len(rounds[n].bets) :
         rounds[n].bets[i].playerId # calls[c].playerId
    /\ \A i \in 1..Len(txLog) : txLog[i].playerId # calls[c].playerId

\* C10: a placeBet invoked when there is no current round or the current
\* round is not 'waiting' is rejected at once with 'No active round accepting
\* bets'; the step changes no balance, no bets list and no transaction log
\* and broadcasts nothing.
C10_RejectedUnlessWaiting ==
  [][(/\ Len(calls') = Len(calls) + 1
      /\ calls'[Len(calls')].kind = "placeBet"
      /\ (currentRound = 0 \/ rounds[currentRound].status # "waiting"))
       => /\ calls'[Len(calls')].pc = "done"
          /\ calls'[Len(calls')].error = "No active round accepting bets"
          /\ NoEffect]_vars

\* C10 witness: a bet was refused while the round was running
C10_Witness ==
  \E c \in 1..Len(calls) :
    /\ calls[c].kind = "placeBet"
    /\ calls[c].pc = "done"
    /\ calls[c].error = "No active round accepting bets"
    /\ currentRound # 0
    /\ rounds[currentRound].status = "active"

\* the current round is not live
NotLive == currentRound = 0 \/ rounds[currentRound].status # "active"

\* what a rejected cashOut leaves alone
NoSettlement == UNCHANGED << wallet, stats, rounds, txLog, events >>

C12_CrashOnlyAtCrashPoint ==
  [][\A n \in 1..Len(rounds) :
       (rounds[n].status # "crashed" /\ rounds'[n].status = "crashed")
         => JsGe(currentMultiplier', rounds[n].crashPoint * 100)]_vars

\* C13: per-round event order. Every multiplier_update of a round comes after
\* the round_started of that round and before its game_crashed, and
\* game_crashed is broadcast at most once per round.
C13_RoundEventOrder ==
  /\ \A j \in EventsOf("multiplier_update") :
       /\ \E i \in EventsOf("round_started") :
            i < j /\ events[i].roundId = events[j].roundId
       /\ \A i \in EventsOf("game_crashed") :
            events[i].roundId = events[j].roundId => j < i
  /\ \A i, j \in EventsOf("game_crashed") :
       events[i].roundId = events[j].roundId => i = j

\* C14: per-wager event order. When cashOut broadcasts player_cashed_out, the
\* bet_placed of that player's wager in the wager's round has been broadcast
\* and the game_crashed of the wager's round has not.
C14_WagerEventOrder ==
  [][\A c \in 1..Len(calls) :
       LET call == calls[c]
       IN  (/\ call.kind = "cashOut"
            /\ \E i \in Broadcast : events'[i].type = "player_cashed_out"
            /\ call.pc = "txsave"
            /\ calls'[c].pc = "done")
             => /\ \E i \in EventsOf("bet_placed") :
                     /\ events[i].playerId = call.playerId
                     /\ events[i].roundId = call.betRound
                /\ \A i \in EventsOf("game_crashed") :
                     events[i].roundId # call.betRound]_vars

\* C15: event monotonicity. Within a round the multipliers carried by
\* multiplier_update (rounded to hundredths) never decrease, and each is
\* strictly less than the round's crash point.
C15_MultiplierMonotone ==
  \A j \in EventsOf("multiplier_update") :
    /\ JsLt(events[j].multiplier, rounds[events[j].roundId].crashPoint)
    /\ \A i \in EventsOf("multiplier_update") :
         (i < j /\ events[i].roundId = events[j].roundId)
           => JsGe(events[j].multiplier, events[i].multiplier)

\* the wagers of a player that a crash has left not cashed out; crashGame
\* stamps the round it crashes with endTime
LostWagers(playerId) ==
  {w \in (1..Len(rounds)) \X (1..MaxCalls) :
     /\ rounds[w[1]].endTime # Null
     /\ w[2] <= Len(rounds[w[1]].bets)
     /\ rounds[w[1]].bets[w[2]].playerId = playerId
     /\ ~rounds[w[1]].bets[w[2]].cashedOut}

\* C16 (state part): once crashGame has returned, every player's totalLosses
\* counts each not-cashed-out wager of each crashed round exactly once
LossesCounted ==
  (crashTasks = << >> /\ startTask.pc = "idle")
    => \A p \in Players : stats[p].totalLosses = Cardinality(LostWagers(p))

\* C16 (step part): a step that counts a loss moves no funds and records no
\* transaction
LossMovesNothing ==
  (\E p \in Players : stats'[p].totalLosses # stats[p].totalLosses)
    => UNCHANGED << wallet, txLog >>

\* C16: loss settlement. When a round crashes, each of its wagers that is not
\* cashed out adds exactly one to its player's totalLosses, and settlement
\* changes no balance and records no transaction.
C16_LossSettlement == []LossesCounted /\ [][LossMovesNothing]_vars

\* a placeBet call reports an error in this step
Reports(c) ==
  /\ calls'[c].kind = "placeBet"
  /\ calls'[c].pc = "done"
  /\ calls'[c].error # "none"
  /\ (c <= Len(calls) => calls[c].pc # "done")

\* C17: errors of placeBet leave no trace. Whenever placeBet reports an error,
\* the call has written no debit and appended no wager, and the reporting
\* step changes no balance, no bets list and no transaction log and
\* broadcasts nothing.
C17_BetErrorAtomic ==
  [][\A c \in 1..Len(calls') :
       Reports(c)
         => /\ NoEffect
            /\ c <= Len(calls)
                 => /\ calls[c].pc \notin {"roundsave", "txsave"}
                    /\ calls[c].betIx = 0]_vars

\* the engine was started over a store that holds rounds of an earlier run
Restarted == currentRound # roundCounter

\* the wagers of earlier rounds that are marked cashed out with an amount
MarkedWagers ==
  {w \in (1..Len(rounds)) \X (1..MaxCalls) :
     /\ w[1] < currentRound
     /\ w[2] <= Len(rounds[w[1]].bets)
     /\ rounds[w[1]].bets[w[2]].cashedOut
     /\ rounds[w[1]].bets[w[2]].cashoutAmount # Null}

\* a cashout transaction of the wager's player, round and amount is in the log
Recorded(w) ==
  \E i \in 1..Len(txLog) :
    /\ txLog[i].transactionType = "cashout"
    /\ txLog[i].playerId = rounds[w[1]].bets[w[2]].playerId
    /\ txLog[i].roundId = rounds[w[1]].roundId
    /\ txLog[i].cryptoAmount = rounds[w[1]].bets[w[2]].cashoutAmount

\* C18: marked wagers are reconciled at startup. Once the server has started
\* again, every wager that an earlier run marked cashed out has its cashout
\* transaction (the record of its credit) in the log.
C18_ReconciledAtStartup == Restarted => \A w \in MarkedWagers : Recorded(w)

\* some lookup of the application has fetched the asset's price from the
\* upstream less than the cache duration ago
FetchedLately(cryptocurrency) ==
  \E d \in 1..Len(calls) : CacheFresh(calls[d].cache, cryptocurrency)

\* the step issues an upstream request on behalf of request c
IssuesRequest(c) ==
  /\ calls'[c].pc = "fetch"
  /\ \/ c > Len(calls)
     \/ calls'[c].requests > calls[c].requests

\* C19: while less than the cache duration (10 s) has passed since a
\* successful upstream fetch of an asset's price, no price lookup for that
\* asset issues an upstream request
C19_CacheHit ==
  [][\A c \in 1..Len(calls') :
        IssuesRequest(c) => ~FetchedLately(calls'[c].cryptocurrency)]_vars

\* request c waits for the upstream's reply about the asset
Pending(c, cryptocurrency) ==
  /\ calls[c].pc = "fetch"
  /\ calls[c].cryptocurrency = cryptocurrency

\* C20: concurrent lookups of the same asset share one upstream request: at
\* no time are two upstream requests for the same asset outstanding
C20_OneRequestPerAsset ==
  \A cryptocurrency \in Assets :
    \A c, d \in 1..Len(calls) :
      (Pending(c, cryptocurrency) /\ Pending(d, cryptocurrency)) => c = d

\* the step ends a getCurrentPrice(tag) of service c whose upstream request
\* has failed
LookupFailed(c, tag) ==
  /\ calls[c].kind = "service"
  /\ calls[c].pc = "fetch"
  /\ calls[c].asked = {tag}
  /\ calls'[c].pc = "idle"
  /\ calls'[c].outcome # "price"

\* C21: a getCurrentPrice for bitcoin or ethereum whose upstream request
\* fails or times out returns the cached price, whatever its age, or without
\* a cache entry the fallback (bitcoin 67000, ethereum 3500); it reports no
\* error and leaves the cache as it was
C21_FallbackOnFailure ==
  [][\A c \in 1..Len(calls) : \A tag \in Assets :
        LookupFailed(c, tag) =>
          /\ calls'[c].error = "none"
          /\ calls'[c].cache = calls[c].cache
          /\ calls'[c].result[tag] =
                IF calls[c].cache[tag] # Absent THEN calls[c].cache[tag].price
                ELSE IF tag = "bitcoin" THEN 67000
                ELSE 3500]_vars

\* a failed lookup has returned a cached price older than the cache duration
C21_Witness ==
  \E c \in 1..Len(calls) : \E tag \in Assets :
    /\ calls[c].kind = "service"
    /\ calls[c].op = "getCurrentPrice"
    /\ calls[c].pc = "idle"
    /\ calls[c].asked = {tag}
    /\ calls[c].outcome \in {"missing", "error"}
    /\ calls[c].cache[tag] # Absent
    /\ now - calls[c].cache[tag].timestamp >= CacheSteps
    /\ calls[c].result[tag] = calls[c].cache[tag].price

\* the last call on service c was op and has returned
Returned(c, op) ==
  /\ calls[c].kind = "service"
  /\ calls[c].op = op
  /\ calls[c].pc = "idle"

\* C22: a getCurrentPrices that has returned has issued at most one upstream
\* request and its result holds a price for every tag it was asked for
C22_BatchedLookup ==
  \A c \in 1..Len(calls) :
    Returned(c, "getCurrentPrices") =>
      /\ calls[c].requests <= 1
      /\ \A tag \in calls[c].asked : calls[c].result[tag] > 0

\* C23: a getCurrentPrice that has returned has failed exactly if its tag is
\* neither bitcoin nor ethereum
C23_FailsIffUnsupported ==
  \A c \in 1..Len(calls) : \A tag \in Tags :
    (Returned(c, "getCurrentPrice") /\ calls[c].asked = {tag}) =>
      (calls[c].error # "none" <=> tag \notin {"bitcoin", "ethereum"})

\* the step handles a message of client k, which is in the Map
Handles(k) ==
  /\ Get(clients, k) # 0
  /\ sockets'[k].inbound = sockets[k].inbound + 1

\* the message the step has put on the socket of client k, if any
Replied(k, type) ==
  /\ Len(sockets'[k].sent) = Len(sockets[k].sent) + 1
  /\ sockets'[k].sent[Len(sockets'[k].sent)].type = type

PlayerIdOf(cl, k) == cl[Get(cl, k)].playerId

\* a client id is the key of at most one Map entry, which holds one player id
\* or none
OneBinding ==
  \A i, j \in 1..Len(clients) :
    /\ clients[i].clientId = clients[j].clientId => i = j
    /\ clients[i].playerId \in Players \cup {NoPlayer}

\* C24: a connection is bound to at most one player id; register_player with
\* a playerId rebinds it to that id, without one it answers
\* registration_error and leaves the binding alone; a cashout_request of a
\* bound connection calls cashOut with the bound id and does not rebind
C24_ObserverBinding ==
  /\ []OneBinding
  /\ [][\A k \in ClientIds :
          Handles(k) =>
            /\ (Replied(k, "registration_success") /\ Get(clients', k) # 0) =>
                 /\ PlayerIdOf(clients', k) # NoPlayer
                 /\ PlayerIdOf(clients', k) =
                      sockets'[k].sent[Len(sockets'[k].sent)].playerId
            /\ (~Replied(k, "registration_success") /\ Get(clients', k) # 0) =>
                 PlayerIdOf(clients', k) = PlayerIdOf(clients, k)
            /\ (Len(calls') > Len(calls) /\ PlayerIdOf(clients, k) # NoPlayer) =>
                 calls'[Len(calls')].playerId = PlayerIdOf(clients, k)
            /\ (Len(calls') > Len(calls) /\ PlayerIdOf(clients, k) = NoPlayer) =>
                 calls'[Len(calls')].playerId \in Players]_vars

\* a connection bound to bob has asked for a cashout, and the only cashOut
\* call is one for bob
C24_Witness ==
  \E k \in ClientIds :
    /\ Get(clients, k) # 0
    /\ PlayerIdOf(clients, k) = "bob"
    /\ Len(sockets[k].sent) = 3
    /\ sockets[k].sent[2].type = "registration_success"
    /\ sockets[k].sent[3].type = "cashout_error"
    /\ sockets[k].sent[3].playerId = "bob"
    /\ Len(calls) = 1
    /\ calls[1].kind = "cashOut"
    /\ calls[1].playerId = "bob"

\* the engine events a socket was sent, as their indices in events, in the
\* order the socket received them
Received(k) ==
  LET sent == sockets[k].sent
      engine == SelectSeq(sent, LAMBDA message : message.ix > 0)
  IN  [i \in 1..Len(engine) |-> engine[i].ix]

\* C25: every observer receives the engine's events in the order in which the
\* engine emitted them: of two events an observer has received, the one
\* emitted first was received first, whatever connections, disconnections
\* and send errors happen in between
C25_BroadcastOrder ==
  \A k \in ClientIds :
    /\ \A i, j \in 1..Len(Received(k)) :
         i < j => Received(k)[i] < Received(k)[j]
    /\ \A n \in 1..Len(sockets[k].sent) :
         sockets[k].sent[n].ix > 0
           => /\ sockets[k].sent[n].ix <= Len(events)
              /\ sockets[k].sent[n].type = events[sockets[k].sent[n].ix].type

\* one observer has received three events of the engine while the other one,
\* which connected after the first of them, was removed on a send error with
\* its socket still open
C25_Witness ==
  /\ Len(Received(1)) >= 3
  /\ Len(Received(2)) >= 1
  /\ Received(2)[1] > Received(1)[1]
  /\ Len(Received(2)) < Len(Received(1)) - 1
  /\ Get(clients, 2) = 0
  /\ sockets[2].readyState = "OPEN"
  /\ Get(clients, 1) # 0

\* the indices of the events a step has added to events
Emitted == [i \in 1..(Len(events') - Len(events)) |-> Len(events) + i]

\* C27: a failed send does not stall the round: in every step in which the
\* engine emits events, each observer that is in the Map with an open socket
\* either receives all of them or, its send having failed, is out of the Map
\* afterwards; an observer whose socket is not open receives nothing; and
\* after a tick that was broadcast the multiplier interval is still running
\* in a live round, so that the next tick is produced
C27_SendFailureContained ==
  [][Len(events') > Len(events) =>
       /\ \A k \in ClientIds :
            IF k \in Attached
            THEN \/ Received(k)' = Received(k) \o Emitted
                 \/ /\ Get(clients', k) = 0
                    /\ Len(Received(k)') < Len(Received(k)) + Len(Emitted)
            ELSE sockets'[k].sent = sockets[k].sent
       /\ events'[Len(events')].type = "multiplier_update"
            => multiplierInterval' /\ isGameActive']_vars

\* a send to observer 1 has failed: it is out of the Map with its socket open
\* and has missed the first tick, which observer 2 received together with a
\* later tick
C27_Witness ==
  /\ Get(clients, 1) = 0
  /\ sockets[1].readyState = "OPEN"
  /\ Len(Received(1)) >= 1
  /\ \E i, j \in 1..Len(Received(2)) :
       /\ i < j
       /\ Received(2)[i] > Received(1)[Len(Received(1))]
       /\ events[Received(2)[i] - 1].type # "multiplier_update"
       /\ events[Received(2)[i]].type = "multiplier_update"
       /\ events[Received(2)[j]].type = "multiplier_update"

\* the Map entry of an observer that is in the Map
Entry(k) == clients[Get(clients, k)]

C28_ShutdownAbortsRound ==
  server.phase \in {"stopped", "exit0"}
    => \A n \in 1..Len(rounds) :
         /\ rounds[n].status \in {"crashed", "completed"}
         /\ rounds[n].status = "completed"
              => \E i \in 1..Len(events) :
                   /\ events[i].type = "game_crashed"
                   /\ events[i].roundId = rounds[n].roundId
                   /\ events[i].seed = rounds[n].seed

\* C29: the shutdown completes in order, also with observers connected: the
\* process does not exit before the game loop is stopped, the Map is empty
\* and every connection that was made is closed, by the hub with code 1000
\* if not by the observer; and the hub closes a connection only when the game
\* loop is stopped
C29_ShutdownInOrder ==
  /\ [](~Alive => /\ gameInterval = Null
                  /\ clients = << >>
                  /\ \A k \in ClientIds :
                       \/ sockets[k].readyState \in {"NONE", "CLOSED"}
                       \/ sockets[k].code = 1000)
  /\ [][\A k \in ClientIds :
          (sockets'[k].code = 1000 /\ sockets[k].code # 1000)
            => gameInterval' = Null]_vars

\* the verify requests that name a saved round and give its stored crash point
VerifiesStored(c) ==
  /\ calls[c].kind = "verifyRound"
  /\ calls[c].status = 200
  /\ calls[c].crashPoint = rounds[calls[c].roundId].crashPoint

\* C30: a verify request that gives the round id, the stored crash point and
\* the stored seed of a saved round is answered isValid = true, and one that
\* gives the round id, the stored crash point and any other seed is answered
\* isValid = false
C30_ProvablyFair ==
  \A c \in 1..Len(calls) :
    VerifiesStored(c)
      => (calls[c].isValid
            <=> calls[c].seed = SeedStr(rounds[calls[c].roundId].seed))

\* the requests of key that limiter admitted in the window that ends at
\* instant, over the calls from c on
RECURSIVE AdmittedIn(_, _, _, _)
AdmittedIn(key, limiter, instant, c) ==
  IF c > Len(calls) THEN 0
  ELSE (IF /\ calls[c].key = key
           /\ calls[c].limiter = limiter.name
           /\ calls[c].at <= instant
           /\ calls[c].at > instant - (limiter.windowMs \div GridMs)
        THEN calls[c].admitted ELSE 0)
       + AdmittedIn(key, limiter, instant, c + 1)

\* C31: for every limiter and every client key, the requests the limiter has
\* admitted within any window of its windowMs are at most its maxRequests,
\* whatever requests the client sends to the other limiters in between
C31_RateLimits ==
  \A key \in Ips, limiter \in Limiters, c \in 1..Len(calls) :
    AdmittedIn(key, limiter, calls[c].at, 1) <= limiter.maxRequests

\* the steps the status of a round may take
Forward ==
  {<< "waiting", "active" >>, << "active", "crashed" >>,
   << "crashed", "completed" >>}

\* C32: the status of a round only moves along waiting -> active -> crashed
\* -> completed: every change of the status of a round is one of these three
\* steps
C32_StatusForwardOnly ==
  [][\A n \in 1..Len(rounds) :
       rounds'[n].status # rounds[n].status
         => << rounds[n].status, rounds'[n].status >> \in Forward]_vars

\* the game_crashed events that carry the id of round n
CrashedEvents(n) ==
  {i \in 1..Len(events) :
     events[i].type = "game_crashed" /\ events[i].roundId = rounds[n].roundId}

\* C33: every round is settled in the end.  The engine only writes to the
\* current round, so a round that is no longer the current one stays as it
\* is: such a round is 'completed' with its endTime set, and exactly one
\* game_crashed event with its id, its crash point and its seed has been
\* broadcast
C33_EveryRoundSettled ==
  \A n \in 1..Len(rounds) :
    n # currentRound
      => /\ rounds[n].status = "completed"
         /\ rounds[n].endTime # Null
         /\ Cardinality(CrashedEvents(n)) = 1
         /\ \A i \in CrashedEvents(n) :
              /\ events[i].crashPoint = rounds[n].crashPoint
              /\ events[i].seed = rounds[n].seed

\* the wagers of playerId, over all rounds, that have been cashed out
CashedOutBets(playerId) ==
  {w \in (1..Len(rounds)) \X (1..MaxPayoutCalls) :
     /\ w[2] <= Len(rounds[w[1]].bets)
     /\ rounds[w[1]].bets[w[2]].playerId = playerId
     /\ rounds[w[1]].bets[w[2]].cashedOut}

\* the cashout transactions of playerId in the store
CashoutTransactions(playerId) ==
  {i \in 1..Len(txLog) :
     /\ txLog[i].transactionType = "cashout"
     /\ txLog[i].playerId = playerId}

\* the cashOut calls that found an open wager and are past the flag
PayingOut ==
  {c \in 1..Len(calls) : calls[c].kind = "cashOut" /\ calls[c].betRound > 0}

\* C34: a wager is paid out at most once, however many cashOut requests
\* arrive for its player and however they interleave: no two cashOut calls
\* hold the same wager, a player has at most as many cashout transactions
\* and counted wins as wagers that were cashed out, and a wager that is
\* cashed out is never written again
C34_PaidOutOnce ==
  /\ [](/\ \A c, d \in PayingOut :
            (calls[c].betRound = calls[d].betRound
               /\ calls[c].betIx = calls[d].betIx) => c = d
        /\ \A p \in Players :
            /\ Cardinality(CashoutTransactions(p)) <= Cardinality(CashedOutBets(p))
            /\ stats[p].totalWins <= Cardinality(CashedOutBets(p)))
  /\ [][\A n \in 1..Len(rounds) : \A i \in 1..Len(rounds[n].bets) :
         rounds[n].bets[i].cashedOut
           => /\ Len(rounds'[n].bets) >= i
              /\ rounds'[n].bets[i] = rounds[n].bets[i]]_vars

\* a cashOut is paying the wager of a player in the current round while a
\* second cashOut of the same player has been turned away
C34_SecondCashOutRejected ==
  \E c, d \in 1..Len(calls) :
    /\ c \in PayingOut
    /\ calls[c].pc # "done"
    /\ calls[c].betRound = currentRound
    /\ calls[d].kind = "cashOut"
    /\ calls[d].playerId = calls[c].playerId
    /\ calls[d].error = "No active bet found for player"

\* the wagers of playerId over all rounds: << round, index >>
WagersOf(playerId) ==
  {w \in (1..Len(rounds)) \X (1..MaxCalls) :
     /\ w[2] <= Len(rounds[w[1]].bets)
     /\ rounds[w[1]].bets[w[2]].playerId = playerId}

\* every round that holds a wager of playerId is completed and no request of
\* playerId is under way
AllSettled(playerId) ==
  /\ \A w \in WagersOf(playerId) : rounds[w[1]].status = "completed"
  /\ \A c \in 1..Len(calls) :
       calls[c].playerId = playerId => calls[c].pc = "done"

\* C35: every wager is settled exactly once.  Once the rounds that hold the
\* wagers of a player are completed and the player's requests have returned,
\* the player's counted wins are the wagers that were cashed out and the
\* counted losses are the wagers that were not: one win or one loss for each
\* wager, never both and never neither; and at no time has a player more
\* counted wins and losses than wagers
C35_SettledExactlyOnce ==
  \A p \in Players :
    /\ stats[p].totalWins + stats[p].totalLosses <= Cardinality(WagersOf(p))
    /\ AllSettled(p)
      => /\ stats[p].totalWins
              = Cardinality({w \in WagersOf(p) : rounds[w[1]].bets[w[2]].cashedOut})
         /\ stats[p].totalLosses
              = Cardinality({w \in WagersOf(p) : ~rounds[w[1]].bets[w[2]].cashedOut})

\* the calls that hold a loaded balance of playerId in cryptocurrency and
\* have not written it yet
Debiting(playerId, cryptocurrency) ==
  {c \in 1..Len(calls) :
     /\ calls[c].kind \in {"placeBet", "withdraw", "transfer"}
     /\ calls[c].pc \in {"save", "saveFrom"}
     /\ calls[c].playerId = playerId
     /\ calls[c].cryptocurrency = cryptocurrency}

\* C36: every stored balance is >= 0 in every reachable state, and so is
\* every balance a request is about to write: a bet, withdrawal or transfer
\* larger than the balance it read is rejected, however the requests on one
\* player interleave
C36_BalanceNonNegative ==
  /\ \A p \in Players, a \in Assets : wallet[p][a] >= 0
  /\ \A c \in 1..Len(calls) :
       /\ calls[c].doc # Null => calls[c].doc >= 0
       /\ calls[c].toDoc # Null => calls[c].toDoc >= 0

\* two debits of different kinds hold the same loaded balance of one player
\* at once, neither written yet, and a third request of that player was
\* rejected for its amount
C36_ConcurrentDebits ==
  \E p \in Players, a \in Assets :
    /\ \E c, d \in Debiting(p, a) : calls[c].kind # calls[d].kind
    /\ \E e \in 1..Len(calls) :
         /\ calls[e].playerId = p
         /\ calls[e].error = "Insufficient balance"

\* C37: the live flag agrees with the round status: isGameActive is true
\* exactly when there is a current round and its status is 'active', so the
\* cash-out gate (isGameActive) and the bet gate (status 'waiting') are never
\* open together
C37_LiveFlagAgrees ==
  isGameActive
    <=> (currentRound # 0 /\ rounds[currentRound].status = "active")

\* C38: stopping is final.  In every step taken after stopGameLoop has
\* returned, isGameActive is false afterwards, no round becomes 'active', no
\* multiplier_update is broadcast and no cashOut gets past its gates; the
\* stop may fall into the betting window, with the startMultiplier timer
\* pending
C38_StopIsFinal ==
  [][Stopped
       => /\ ~isGameActive'
          /\ \A n \in 1..Len(rounds) :
               rounds'[n].status = "active" => rounds[n].status = "active"
          /\ \A i \in (Len(events) + 1)..Len(events') :
               events'[i].type # "multiplier_update"
          /\ Len(calls') > Len(calls)
               => ~(/\ calls'[Len(calls')].kind = "cashOut"
                    /\ calls'[Len(calls')].pc = "roundsave")]_vars

\* C39: the snapshot is consistent with the round it names: when
\* getCurrentGameState returns a roundId, the multiplier in it is 1.00 while
\* the status in it is 'waiting', and is never above the crash point of that
\* round
C39_SnapshotConsistent ==
  LET gameState == getCurrentGameState
  IN  gameState.status # "no_game"
        => /\ gameState.status = "waiting" => gameState.multiplier = MultScale
           /\ ~JsGt(gameState.multiplier,
                    rounds[gameState.roundId].crashPoint * 100)

\* the id of the round whose bets list holds the wager of call c
WagerRound(c) == rounds[calls[c].betRound].roundId

\* C40: round attribution is stable across awaits: the roundId that placeBet
\* and cashOut put into the transaction they build, into the transaction
\* they store and into bet_placed / player_cashed_out is the id of the round
\* whose bets list holds the wager, also when startNewRound has replaced the
\* current round while the request was suspended
C40_RoundAttribution ==
  [][\A c \in 1..Len(calls) :
       calls[c].kind \in {"placeBet", "cashOut"} /\ calls[c].betRound > 0
         => /\ (calls[c].pc # "txsave" /\ calls'[c].pc = "txsave")
                 => calls'[c].tx.roundId = WagerRound(c)
            /\ (calls[c].pc = "txsave" /\ calls'[c].pc = "done")
                 => /\ txLog'[Len(txLog')].roundId = WagerRound(c)
                    /\ events'[Len(events')].roundId = WagerRound(c)]_vars
====
